---- MODULE Spec2Model ----
(***************************************************************************)
(* tinySort: the file-state sorting engine of SorterPage (sorterpage.py),  *)
(* its image loader, the chunks of ProjectPage (projectpage.py) and the    *)
(* directory scan gather_images (utils.py).                                *)
(*                                                                         *)
(* A path is a record [dir, stem, ext]: dir is the sequence of directory   *)
(* names below the project base directory, stem the numbered basename and  *)
(* ext the suffix without its dot (pathlib's parent / stem / suffix).      *)
(* The disk is a partial function from paths to file contents; a file's    *)
(* content is named by the path it had when the class was opened, so a     *)
(* lost or overwritten file is visible as a content that no path holds.    *)
(***************************************************************************)
EXTENDS Bags, FiniteSets, Integers, Sequences, TLC

VARIABLES
    fs,         \* the disk: path -> content, defined on the existing files
    dirs,       \* the directories that exist
    images,     \* SorterPage.images, the work queue (head = current image)
    history,    \* SorterPage.history, deque(maxlen=MAX_HISTORY)
    jobs,       \* ImageLoader jobs started on the pool and not yet delivered
    pm_full,    \* path whose bitmap the page displays (NoPath: none yet)
    page,       \* "open": the page is shown; "left": _finish has left it;
                \* "none": no sorter page (_move called alone)
    done,       \* the "Class complete!" dialog of _finish has been shown
    disk0,      \* the disk when the class was opened; on the project page,
                \* the listing when the classes were enumerated last
    last,       \* the last call of a handler and its outcome
    run,        \* the current run of consecutive sorts and following undos,
                \* or of consecutive navigations in one direction
    shown,      \* display updates (_loaded applying a bitmap) since the last
                \* call of _load_async that started a load
    class_chunks,       \* ProjectPage.class_chunks: class -> list of chunks
    class_chunk_index,  \* ProjectPage.class_chunk_index: class -> active chunk
    sel,        \* ProjectPage.list.currentItem(): a class, or NoClass
    listing,    \* class -> the files below the class directory, in the
                \* order rglob yields them
    pix,        \* path -> [w, h], the bitmap QPixmap decodes from the file;
                \* a path outside its domain is not decodable
    scan,       \* the call of gather_images: its arguments and its result
    lru,        \* the cache of lru_cache around load_pixmap, the entry used
                \* least recently first
    qcache,     \* QPixmapCache, the entry used least recently first
    calls,      \* the calls of load_pixmap that have missed lru and have not
                \* returned
    loads,      \* what the calls of load_pixmap have done so far; with the
                \* pool, the completions emitted and not yet handled
    thumbs      \* the thumbnails of the gallery page: path and state of each
                \* ThumbLabel

caches == <<lru, qcache, calls, loads>>

outside == <<class_chunks, class_chunk_index, sel, listing, pix, scan, caches, thumbs>>

vars == <<fs, dirs, images, history, jobs, pm_full, page, done, disk0, last, run,
          shown, class_chunks, class_chunk_index, sel, listing, pix, scan, lru, qcache, calls, loads,
          thumbs>>

(***************************************************************************)
(* Bounds of the model and constants of the program.                       *)
(***************************************************************************)
MaxFiles == 3       \* files on disk when the class is opened
HistImages == 22    \* unsorted images of the long class (bounded history)
MAX_HISTORY == 20   \* config.py
MaxJobs == 3        \* image loads started on the pool and not yet delivered
MaxChunks == 2      \* full chunks of unsorted images in the largest class
GatherDepth == 2    \* largest max_depth gather_images is called with
MaxLimit == 2       \* largest limit gather_images is called with
NoLimit == -1       \* utils.py: limit = None, the default; the limits given are 0 and above
CHUNK_SIZE == 2000  \* projectpage.py, sorterpage.py
PLACEHOLDER == 200  \* utils.py: width and height of the error placeholder

Cls == "cat"
ClassDir == <<Cls>>
DeleteDir == <<"delete", Cls>>
SubDir == ClassDir \o <<"sub">>
KeepDir == ClassDir \o <<"keep">>
ReviewDir == ClassDir \o <<"review">>

Acts == {"keep", "review", "delete"}
\* the file operation of _move that raises, if any: dst_dir.mkdir, the
\* shutil.move of the image, the shutil.move of the sidecar. Nothing in
\* _move, _sort or _undo catches the exception: it reaches the caller with
\* the state as the handler left it.
Faults == {"none", "mkdir", "image", "sidecar"}
IMG_EXTS == {"jpg", "jpeg", "png", "bmp", "tif", "tiff", "gif"}

P(d, s, e) == [dir |-> d, stem |-> s, ext |-> e]
NoPath == P(<<>>, 0, "")

\* str.lower() on the suffixes and directory names the model uses
Lower(e) == IF e = "JPG" THEN "jpg" ELSE IF e = "Temp" THEN "temp" ELSE e

IsImage(p) == Lower(p.ext) \in IMG_EXTS

Min(a, b) == IF a < b THEN a ELSE b
Max(a, b) == IF a > b THEN a ELSE b

\* dst_dir / src.name
Dst(src, dst_dir) == [src EXCEPT !.dir = dst_dir]

\* src.with_suffix('.txt')
Ann(src) == [src EXCEPT !.ext = "txt"]

\* the directory and its parents: mkdir(parents=True, exist_ok=True)
Parents(d) == {SubSeq(d, 1, n) : n \in 1..Len(d)}

\* shutil.move(src, dst) of a file that exists: rename, replacing a file
\* already at dst
Rename(f, src, dst) ==
    IF src = dst THEN f
    ELSE [q \in (DOMAIN f \ {src}) \cup {dst} |-> IF q = dst THEN f[src] ELSE f[q]]

SamePathNever(dst, src) == FALSE

\* the guard "if dst == src" of _move
SamePath(dst, src) == dst = src

HasAnnNever(f, ann) == FALSE

\* ann.exists()
HasAnn(f, ann) == ann \in DOMAIN f

\* whether the file operation named by fault is one this call of _move makes
FaultApplies(f, d, src, dst_dir, fault) ==
    CASE fault = "none" -> TRUE
      [] fault = "mkdir" -> dst_dir \notin d
      [] fault = "image" -> ~SamePath(Dst(src, dst_dir), src)
      [] fault = "sidecar" -> /\ ~SamePath(Dst(src, dst_dir), src)
                              /\ src \in DOMAIN f
                              /\ HasAnn(Rename(f, src, Dst(src, dst_dir)), Ann(src))

\* SorterPage._move: the disk and directories it leaves, the exception it
\* raises (err) and the path it returns
Move(f, d, src, dst_dir, fault) ==
    LET dst == Dst(src, dst_dir)
        d1 == d \cup Parents(dst_dir)
    IN  IF fault = "mkdir"
        THEN [fs |-> f, dirs |-> d, err |-> "mkdir", ret |-> NoPath]
        ELSE IF SamePath(dst, src)
        THEN [fs |-> f, dirs |-> d1, err |-> "none", ret |-> dst]
        ELSE IF fault = "image" \/ src \notin DOMAIN f
        THEN [fs |-> f, dirs |-> d1, err |-> "image", ret |-> NoPath]
        ELSE LET f1 == Rename(f, src, dst)
                 ann == Ann(src)
             IN  IF ~HasAnn(f1, ann)
                 THEN [fs |-> f1, dirs |-> d1, err |-> "none", ret |-> dst]
                 ELSE IF fault = "sidecar"
                 THEN [fs |-> f1, dirs |-> d1, err |-> "sidecar", ret |-> NoPath]
                 ELSE [fs |-> Rename(f1, ann, Dst(ann, dst_dir)), dirs |-> d1,
                       err |-> "none", ret |-> dst]

DstDirInClass(act) == ClassDir \o <<act>>

\* dst_dir of _sort
DstDir(act) == IF act /= "delete" THEN ClassDir \o <<act>> ELSE DeleteDir

OrigParentClassRoot(src) == ClassDir

\* orig_parent of _sort
OrigParent(src) == src.dir

PushUnbounded(h, e) == Append(h, e)

\* history.append on a deque(maxlen=MAX_HISTORY)
Push(h, e) == IF Len(h) >= MAX_HISTORY THEN Append(Tail(h), e) ELSE Append(h, e)

Front(h) == SubSeq(h, 1, Len(h) - 1)

PopLeftKeeps(q) == q

\* images.popleft()
PopLeft(q) == Tail(q)

RotateOneWay(q, s) == IF q = <<>> THEN q ELSE Tail(q) \o <<q[1]>>

\* images.rotate(s), s = 1 or -1
Rotate(q, s) ==
    IF q = <<>> THEN q
    ELSE IF s = 1 THEN <<q[Len(q)]>> \o Front(q)
    ELSE Tail(q) \o <<q[1]>>

SkippedKeepOnly(p) == Len(p.dir) > Len(ClassDir) /\ p.dir[Len(ClassDir) + 1] = "keep"

\* the relative path of p below class_dir starts with keep or review
Skipped(p) == Len(p.dir) > Len(ClassDir) /\ p.dir[Len(ClassDir) + 1] \in {"keep", "review"}

UnderClassDir(p) == Len(p.dir) >= Len(ClassDir) /\ SubSeq(p.dir, 1, Len(ClassDir)) = ClassDir

\* the set of paths SorterPage._unprocessed yields
Unprocessed(f) == {p \in DOMAIN f : UnderClassDir(p) /\ IsImage(p) /\ ~Skipped(p)}

\* every ordering of a set of paths
Orderings(S) == {q \in [1..Cardinality(S) -> S] : \A i, j \in 1..Cardinality(S) : i /= j => q[i] /= q[j]}

(***************************************************************************)
(* The class directories the model opens.                                  *)
(***************************************************************************)
\* files that may be on disk when the class is opened: two unsorted images
\* of the same name (class root and a subfolder), a second image, sidecars,
\* and an image of the same name already in the keep folder
Files0 ==
    {P(ClassDir, 1, "jpg"), P(ClassDir, 1, "txt"), P(ClassDir, 2, "jpg"),
     P(SubDir, 1, "jpg"), P(SubDir, 1, "txt"),
     P(KeepDir, 1, "jpg")}

Layouts == {S \in SUBSET Files0 : Cardinality(S) <= MaxFiles}

AllDirs == {ClassDir, SubDir, KeepDir, ReviewDir, DeleteDir}
AllPaths == {P(d, s, e) : d \in AllDirs, s \in {1, 2}, e \in {"jpg", "txt"}}

EmptyFs == [p \in {} |-> p]

\* run: k consecutive successful sorts, then j calls of undo; the disk, the
\* queue and the history length before the first of the sorts; the moves
Idle == [k |-> 0, j |-> 0, h0 |-> 0, fs0 |-> EmptyFs, q0 |-> <<>>, log |-> <<>>]
Moved(src, dst, content) == [src |-> src, dst |-> dst, content |-> content]
Undone(r) ==
    IF r.k > 0 /\ r.j <= Min(r.h0 + r.k, MAX_HISTORY) THEN [r EXCEPT !.j = @ + 1] ELSE r

\* run of navigations: j consecutive calls of _nav in the direction key on
\* the queue q0 (k = 0); after as many calls as the queue is long the
\* count starts again
Turned(r, key, q) ==
    IF r.k = 0 /\ r.j > 0 /\ r.j < Len(q) /\ last.op = "nav" /\ last.act = key
    THEN [r EXCEPT !.j = @ + 1]
    ELSE [Idle EXCEPT !.j = 1, !.q0 = q]

\* last: the handler called last, its action, the exception it raised, the
\* path it moved or tried to move and the directory it moved it to; for the
\* project page the class in act and, in to, the index and delta of
\* _change_chunk or the indexes _populate found
Call(op, act, err, src, to) ==
    [op |-> op, act |-> act, err |-> err, src |-> src, to |-> to]

NoClass == ""

\* no project page, no bitmap and no directory scan take part
NoProject == class_chunks = <<>> /\ class_chunk_index = <<>> /\ sel = NoClass /\ listing = <<>>
NoScan == scan = <<>>
NoLoads == lru = <<>> /\ qcache = <<>> /\ calls = <<>> /\ loads = <<>>
NoGallery == thumbs = <<>>
SorterOnly == NoProject /\ pix = <<>> /\ NoScan /\ NoLoads /\ NoGallery

\* SorterPage.__init__ on the class directory S: the queue is built by
\* _unprocessed and the first load is started (_finish runs inside the
\* constructor when there is no unsorted image; its signals are not yet
\* connected, so the page is shown all the same)
Opened(S, q) ==
    /\ fs = [p \in S |-> p]
    /\ dirs = {ClassDir} \cup UNION {Parents(p.dir) : p \in S}
    /\ images = q
    /\ history = <<>>
    /\ jobs = IF q = <<>> THEN EmptyBag ELSE SetToBag({q[1]})
    /\ pm_full = NoPath
    /\ page = "open"
    /\ done = (q = <<>>)
    /\ disk0 = fs
    /\ last = Call("open", "", "none", NoPath, <<>>)
    /\ run = Idle
    /\ shown = 0

\* every ordering of the unsorted images is the queue of some bitmap
\* dimensions and some order of the directory listing
Init ==
    /\ SorterOnly
    /\ \E S \in Layouts : \E q \in Orderings(Unprocessed([p \in S |-> p])) : Opened(S, q)

\* _load_async decoding in the caller: it goes on when no other load runs
LoadAwaited(q, cap) ==
    IF q = <<>>
    THEN /\ done' = TRUE
         /\ page' = "left"
         /\ jobs' = jobs
         /\ shown' = shown
    ELSE /\ calls = <<>>
         /\ BagCardinality(jobs) < cap
         /\ jobs' = jobs (+) SetToBag({q[1]})
         /\ shown' = 0
         /\ UNCHANGED <<done, page>>

\* SorterPage._load_async for the queue q: start a load of the head, or
\* _finish when there is none (every button of its dialog leaves the page);
\* cap bounds the loads in flight
LoadAsync(q, cap) ==
    IF q = <<>>
    THEN /\ done' = TRUE
         /\ page' = "left"
         /\ jobs' = jobs
         /\ shown' = shown
    ELSE /\ BagCardinality(jobs) < cap
         /\ jobs' = jobs (+) SetToBag({q[1]})
         /\ shown' = 0
         /\ UNCHANGED <<done, page>>

\* SorterPage._current: NoPath stands for None
Current(q) == IF q = <<>> THEN NoPath ELSE q[1]

NothingToSortNever(src) == FALSE

\* "if src is None: return" of _sort
NothingToSort(src) == src = NoPath

\* SorterPage._sort(act); fault names the file operation that raises
Sort(act, fault, cap) ==
    /\ page = "open"
    /\ UNCHANGED <<pm_full, disk0, outside>>
    /\ IF NothingToSort(Current(images))
       THEN /\ fault = "none"
            /\ last' = Call("sort", act, "none", NoPath, <<>>)
            /\ run' = Idle
            /\ UNCHANGED <<fs, dirs, images, history, jobs, page, done, shown>>
       ELSE LET src == Current(images)
                orig_parent == OrigParent(src)
                dst_dir == DstDir(act)
                r == Move(fs, dirs, src, dst_dir, fault)
            IN  /\ FaultApplies(fs, dirs, src, dst_dir, fault)
                /\ fs' = r.fs
                /\ dirs' = r.dirs
                /\ last' = Call("sort", act, r.err, src, dst_dir)
                /\ IF r.err /= "none"
                   THEN /\ run' = Idle
                        /\ UNCHANGED <<images, history, jobs, page, done, shown>>
                   ELSE /\ history' = Push(history, [src |-> r.ret, orig_parent |-> orig_parent, state |-> act])
                        /\ images' = PopLeft(images)
                        /\ LoadAsync(images', cap)
                        /\ run' = IF run.k > 0 /\ run.j = 0
                                  THEN [run EXCEPT !.k = @ + 1, !.log = Append(@, Moved(src, r.ret, fs[src]))]
                                  ELSE [k |-> 1, j |-> 0, h0 |-> Len(history), fs0 |-> fs, q0 |-> images,
                                        log |-> <<Moved(src, r.ret, fs[src])>>]

NothingToUndoNever(h) == FALSE

\* "if not self.history: return" of _undo
NothingToUndo(h) == h = <<>>

\* SorterPage._undo(); history.pop() raises IndexError on an empty deque
Undo(fault, cap) ==
    /\ page = "open"
    /\ UNCHANGED <<pm_full, disk0, outside>>
    /\ IF NothingToUndo(history)
       THEN /\ fault = "none"
            /\ last' = Call("undo", "", "none", NoPath, <<>>)
            /\ run' = Undone(run)
            /\ UNCHANGED <<fs, dirs, images, history, jobs, page, done, shown>>
       ELSE IF history = <<>>
       THEN /\ fault = "none"
            /\ last' = Call("undo", "", "IndexError", NoPath, <<>>)
            /\ run' = Idle
            /\ UNCHANGED <<fs, dirs, images, history, jobs, page, done, shown>>
       ELSE LET entry == history[Len(history)]
                r == Move(fs, dirs, entry.src, entry.orig_parent, fault)
            IN  /\ FaultApplies(fs, dirs, entry.src, entry.orig_parent, fault)
                /\ history' = Front(history)
                /\ fs' = r.fs
                /\ dirs' = r.dirs
                /\ last' = Call("undo", entry.state, r.err, entry.src, entry.orig_parent)
                /\ IF r.err /= "none"
                   THEN /\ run' = Idle
                        /\ UNCHANGED <<images, jobs, page, done, shown>>
                   ELSE /\ images' = <<r.ret>> \o images
                        /\ LoadAsync(images', cap)
                        /\ run' = Undone(run)

\* the shortcuts of _keys: PREV calls _nav(1), NEXT calls _nav(-1)
NavKey(s) == IF s = 1 THEN "prev" ELSE "next"

\* SorterPage._nav(s)
Nav(s, cap) ==
    /\ page = "open"
    /\ images' = Rotate(images, s)
    /\ LoadAsync(images', cap)
    /\ last' = Call("nav", NavKey(s), "none", NoPath, <<>>)
    /\ run' = Turned(run, NavKey(s), images)
    /\ UNCHANGED <<fs, dirs, history, pm_full, disk0, outside>>

IsCurrentAlways(q, pstr) == TRUE

IsCurrentAny(q, pstr) == q /= <<>>

\* the test of _loaded: self._current() and str(self._current()) == pstr
IsCurrent(q, pstr) == q /= <<>> /\ q[1] = pstr

\* SorterPage._loaded(pstr, pm), called with the completion of a load of p
Handled(p) ==
    /\ BagIn(p, jobs)
    /\ jobs' = jobs (-) SetToBag({p})
    /\ IF IsCurrent(images, p)
       THEN pm_full' = p /\ shown' = shown + 1
       ELSE UNCHANGED <<pm_full, shown>>
    /\ UNCHANGED <<images, history, page, done, last, run>>

\* ImageLoader.run delivering done(path, pixmap) to SorterPage._loaded
Loaded(p) == Handled(p) /\ UNCHANGED <<fs, dirs, disk0, outside>>

\* The sorter page on one of the small classes. The loads are delivered one
\* at a time (one load in flight): the queue, the history and the disk never
\* read the loader's state.
Next ==
    \/ \E act \in Acts, fault \in Faults : Sort(act, fault, 1)
    \/ \E fault \in Faults : Undo(fault, 1)
    \/ \E s \in {1, -1} : Nav(s, 1)
    \/ \E p \in BagToSet(jobs) : Loaded(p)

Spec == Init /\ [][Next]_vars

(***************************************************************************)
(* The long class: HistImages unsorted images in the class root, kept one  *)
(* after the other and undone.                                             *)
(***************************************************************************)
HistFiles == {P(ClassDir, i, "jpg") : i \in 1..HistImages}

InitHistory == SorterOnly /\ Opened(HistFiles, [i \in 1..HistImages |-> P(ClassDir, i, "jpg")])

NextHistory ==
    \/ Sort("keep", "none", 1)
    \/ Undo("none", 1)
    \/ \E p \in BagToSet(jobs) : Loaded(p)

SpecHistory == InitHistory /\ [][NextHistory]_vars

(***************************************************************************)
(* _move alone, called on any path and any directory of a small disk.      *)
(***************************************************************************)
InitMove ==
    \E S \in Layouts :
        /\ SorterOnly
        /\ shown = 0
        /\ fs = [p \in S |-> p]
        /\ dirs = {ClassDir} \cup UNION {Parents(p.dir) : p \in S}
        /\ images = <<>>
        /\ history = <<>>
        /\ jobs = EmptyBag
        /\ pm_full = NoPath
        /\ page = "none"
        /\ done = FALSE
        /\ disk0 = fs
        /\ last = Call("open", "", "none", NoPath, <<>>)
        /\ run = Idle

\* one call _move(src, dst_dir) on the disk drawn by InitMove
MoveCall(src, dst_dir, fault) ==
    LET r == Move(fs, dirs, src, dst_dir, fault)
    IN  /\ last.op = "open"
        /\ FaultApplies(fs, dirs, src, dst_dir, fault)
        /\ fs' = r.fs
        /\ dirs' = r.dirs
        /\ last' = Call("move", "", r.err, src, dst_dir)
        /\ UNCHANGED <<images, history, jobs, pm_full, page, done, disk0, run, shown, outside>>

NextMove == \E src \in AllPaths, dst_dir \in AllDirs, fault \in Faults : MoveCall(src, dst_dir, fault)

SpecMove == InitMove /\ [][NextMove]_vars

(***************************************************************************)
(* The loader: a class of two unsorted images, no failing file operation,  *)
(* and up to MaxJobs loads in flight that the pool delivers in any order.  *)
(***************************************************************************)
LoadFiles == {P(ClassDir, 1, "jpg"), P(ClassDir, 2, "jpg")}

InitLoad == SorterOnly /\ \E q \in Orderings(LoadFiles) : Opened(LoadFiles, q)

NextLoad ==
    \/ \E act \in Acts : Sort(act, "none", MaxJobs)
    \/ Undo("none", MaxJobs)
    \/ \E s \in {1, -1} : Nav(s, MaxJobs)
    \/ \E p \in BagToSet(jobs) : Loaded(p)

SpecLoad == InitLoad /\ [][NextLoad]_vars

(***************************************************************************)
(* gather_images (utils.py) on a disk t: the files t.fs, the directories   *)
(* t.dirs, the symbolic links t.links (location |-> directory linked to),  *)
(* the directories t.denied os.scandir cannot open, the entries t.broken   *)
(* whose is_file() or is_dir() fails with an OSError, the entries t.odd on *)
(* which an exception of another kind arises, and the directories          *)
(* t.nostat whose stat() fails with EACCES, one of their parents not being *)
(* searchable.                                                             *)
(***************************************************************************)
\* a disk without links and without failures
Disk(f, d) ==
    [fs |-> f, dirs |-> d, links |-> <<>>, denied |-> {}, broken |-> {}, odd |-> {}, nostat |-> {}]

\* the directory a path names, the links on it followed
RECURSIVE Real(_, _)
Real(t, path) ==
    IF path \in t.dirs \/ path = <<>> THEN path
    ELSE LET at == Append(Real(t, Front(path)), path[Len(path)])
         IN  IF at \in DOMAIN t.links THEN t.links[at] ELSE at

\* str.startswith('.') on the directory names the model uses
StartsWithDot(name) == name \in {".git"}

SkippedNameExact(name) ==
    StartsWithDot(name) \/ name \in {"temp", "tmp", "cache", "appdata", "localcache"}

\* the directories _scan_directory does not descend into
SkippedName(name) ==
    LET dir_name == Lower(name)
    IN  StartsWithDot(dir_name) \/ dir_name \in {"temp", "tmp", "cache", "appdata", "localcache"}

\* the entries os.scandir yields for path: its files, and its subdirectories
\* and links to directories; entry.path is path joined with the entry's name
Entries(t, path) ==
    LET real == Real(t, path)
    IN  {[isdir |-> FALSE, dir |-> path, stem |-> p.stem, ext |-> p.ext] :
                p \in {x \in DOMAIN t.fs : x.dir = real}}
        \cup {[isdir |-> TRUE, dir |-> Append(path, x[Len(x)]), stem |-> 0, ext |-> ""] :
                x \in {y \in t.dirs \cup DOMAIN t.links : Len(y) = Len(real) + 1 /\ Front(y) = real}}

\* the order in which the entries are yielded: some fixed order
RECURSIVE Listed(_)
Listed(S) ==
    IF S = {} THEN <<>>
    ELSE LET e == CHOOSE x \in S : TRUE IN <<e>> \o Listed(S \ {e})

\* if current_depth > max_depth: return
TooDeep(current_depth, max_depth) == current_depth > max_depth

DescendShallow(current_depth, max_depth) == current_depth + 1 < max_depth

\* entry.is_dir() and current_depth < max_depth
Descend(current_depth, max_depth) == current_depth < max_depth

LimitReachedLate(images_found, limit) ==
    limit /= NoLimit /\ limit /= 0 /\ Len(images_found) > limit

LimitReachedAtZero(images_found, limit) == limit /= NoLimit /\ Len(images_found) >= limit

\* "if limit and len(images) >= limit": None and 0 are both false
LimitReached(images_found, limit) ==
    limit /= NoLimit /\ limit /= 0 /\ Len(images_found) >= limit

\* in place of the list collected so far: an exception that is no OSError is
\* on its way up through the calls of _scan_directory
Unexpected == <<NoPath>>

\* gather_images._scan_directory(path, current_depth), images_found being
\* the list collected so far; ScanEntries is its loop over the entries
RECURSIVE ScanDirectory(_, _, _, _, _, _)
RECURSIVE ScanEntries(_, _, _, _, _, _)
ScanDirectory(t, path, current_depth, max_depth, limit, images_found) ==
    IF TooDeep(current_depth, max_depth) THEN images_found
    ELSE IF Real(t, path) \in t.denied THEN images_found
    ELSE ScanEntries(t, Listed(Entries(t, path)), current_depth, max_depth, limit, images_found)

ScanEntries(t, entries, current_depth, max_depth, limit, images_found) ==
    IF entries = <<>> \/ images_found = Unexpected THEN images_found
    ELSE IF LimitReached(images_found, limit) THEN images_found
    ELSE LET entry == Head(entries)
             entry_path == P(entry.dir, entry.stem, entry.ext)
             found ==
                IF entry \in t.odd THEN Unexpected
                ELSE IF entry \in t.broken THEN images_found
                ELSE IF ~entry.isdir
                THEN IF IsImage(entry_path) THEN Append(images_found, entry_path) ELSE images_found
                ELSE IF Descend(current_depth, max_depth) /\ ~SkippedName(entry.dir[Len(entry.dir)])
                THEN ScanDirectory(t, entry.dir, current_depth + 1, max_depth, limit, images_found)
                ELSE images_found
         IN  ScanEntries(t, Tail(entries), current_depth, max_depth, limit, found)

\* directory.exists(): "PermissionError" where Path.exists() hands on the
\* error of stat(), as it does for every errno but ENOENT, ENOTDIR, EBADF
\* and ELOOP
Exists(t, directory) ==
    IF directory \in t.nostat THEN "PermissionError"
    ELSE IF directory \in t.dirs THEN "yes" ELSE "no"

\* what gather_images(directory, max_depth, limit) returns
GatherImages(t, directory, max_depth, limit) ==
    IF Exists(t, directory) /= "yes" THEN <<>>
    ELSE LET images_found == ScanDirectory(t, directory, 0, max_depth, limit, <<>>)
         IN  IF images_found = Unexpected THEN <<>> ELSE images_found

\* the exception gather_images(directory, ...) ends with, "none" if it returns
GatherRaises(t, directory) ==
    IF Exists(t, directory) = "PermissionError" THEN "PermissionError" ELSE "none"

\* the directory trees gather_images is called on: a chain of directories a
\* below the root, one level deeper than the largest max_depth, a sibling
\* b, and directories whose names are skipped
Chain(n) == ClassDir \o [i \in 1..n |-> "a"]
ScanDirs ==
    {Chain(n) : n \in 0..(GatherDepth + 1)}
    \cup {ClassDir \o <<"b">>, ClassDir \o <<"tmp">>, ClassDir \o <<"Temp">>,
          ClassDir \o <<".git">>, ClassDir \o <<"a", "tmp">>}

\* the directories os.scandir may fail to open
Deniable == {{}, {Chain(1)}, {ClassDir \o <<"b">>}, {ClassDir}}

\* the directories gather_images is called on
Roots == {ClassDir, Chain(1), ClassDir \o <<"tmp">>}

\* scan before the call: the directories that cannot be opened
NoCall(denied) ==
    [t |-> [Disk(<<>>, {}) EXCEPT !.denied = denied], denied |-> denied,
     root |-> <<>>, max_depth |-> 0, limit |-> 0, out |-> <<>>, all |-> <<>>, err |-> "none",
     called |-> FALSE]

\* a tree with an image or another file in some of the directories
InitGather ==
    \E D \in SUBSET ScanDirs, T \in SUBSET {Chain(1), ClassDir}, denied \in Deniable :
        /\ fs = [p \in {P(x, 1, "jpg") : x \in D} \cup {P(x, 2, "txt") : x \in T} |-> p]
        /\ dirs = {ClassDir} \cup UNION {Parents(x) : x \in D}
        /\ denied \subseteq dirs
        /\ scan = NoCall(denied)
        /\ NoProject
        /\ NoLoads
        /\ NoGallery
        /\ pix = <<>>
        /\ images = <<>>
        /\ history = <<>>
        /\ jobs = EmptyBag
        /\ pm_full = NoPath
        /\ page = "none"
        /\ done = FALSE
        /\ disk0 = fs
        /\ last = Call("none", "", "none", NoPath, <<>>)
        /\ run = Idle
        /\ shown = 0

\* one call gather_images(directory, max_depth, limit) on the tree; all is
\* what the call without a limit returns on the same tree
Gather(directory, max_depth, limit) ==
    /\ ~scan.called
    /\ LET t == [scan.t EXCEPT !.fs = fs, !.dirs = dirs]
       IN  scan' = [scan EXCEPT !.root = directory, !.max_depth = max_depth, !.limit = limit,
                                !.out = GatherImages(t, directory, max_depth, limit),
                                !.all = GatherImages(t, directory, max_depth, NoLimit),
                                !.err = GatherRaises(t, directory),
                                !.called = TRUE]
    /\ UNCHANGED <<fs, dirs, images, history, jobs, pm_full, page, done, disk0, last, run, shown,
                   class_chunks, class_chunk_index, sel, listing, pix, caches, thumbs>>

NextGather == \E directory \in Roots, max_depth \in 0..GatherDepth : Gather(directory, max_depth, NoLimit)

SpecGather == InitGather /\ [][NextGather]_vars

\* the entry os.scandir yields for the file p and for the directory d
FileEntry(p) == [isdir |-> FALSE, dir |-> p.dir, stem |-> p.stem, ext |-> p.ext]
DirEntry(d) == [isdir |-> TRUE, dir |-> d, stem |-> 0, ext |-> ""]

\* the directories of the trees scanned with failures and with a limit
FaultDirs == {ClassDir, Chain(1), Chain(2), ClassDir \o <<"b">>}

\* what fails during a scan: nothing; a subdirectory that cannot be opened;
\* an image, an image in a subdirectory, or a subdirectory whose entry fails
\* with an OSError; an entry on which another exception arises; a class
\* directory below a directory without search permission
Failures ==
    LET ok == Disk(<<>>, {})
    IN  {ok,
         [ok EXCEPT !.denied = {Chain(1)}],
         [ok EXCEPT !.broken = {FileEntry(P(ClassDir, 1, "jpg"))}],
         [ok EXCEPT !.broken = {FileEntry(P(Chain(1), 1, "jpg"))}],
         [ok EXCEPT !.broken = {DirEntry(Chain(1))}],
         [ok EXCEPT !.odd = {FileEntry(P(Chain(1), 1, "jpg"))}],
         [ok EXCEPT !.odd = {DirEntry(Chain(2))}],
         [ok EXCEPT !.nostat = FaultDirs]}

\* a tree with one or two images in some of its directories, and what fails
InitScan ==
    \E D \in SUBSET FaultDirs, E \in SUBSET {Chain(1)}, t \in Failures :
        /\ fs = [p \in {P(x, 1, "jpg") : x \in D} \cup {P(x, 2, "jpg") : x \in E} |-> p]
        /\ dirs = {ClassDir} \cup UNION {Parents(x) : x \in D \cup E}
        /\ scan = [NoCall(t.denied) EXCEPT !.t = t]
        /\ NoProject
        /\ NoLoads
        /\ NoGallery
        /\ pix = <<>>
        /\ images = <<>>
        /\ history = <<>>
        /\ jobs = EmptyBag
        /\ pm_full = NoPath
        /\ page = "none"
        /\ done = FALSE
        /\ disk0 = fs
        /\ last = Call("none", "", "none", NoPath, <<>>)
        /\ run = Idle
        /\ shown = 0

NextScan ==
    \E directory \in {ClassDir, Chain(1)}, max_depth \in 0..GatherDepth,
       limit \in {NoLimit} \cup 0..MaxLimit :
        Gather(directory, max_depth, limit)

SpecScan == InitScan /\ [][NextScan]_vars

(***************************************************************************)
(* gather_images step by step: scan.stack holds one frame for every call   *)
(* of _scan_directory that has opened its directory and has not returned,  *)
(* the innermost call last; a frame holds the entries its loop has not     *)
(* come to yet.                                                            *)
(***************************************************************************)
SameDepth(current_depth) == current_depth

\* _scan_directory(entry_path, current_depth + 1)
NextDepth(current_depth) == current_depth + 1

\* the deepest nesting of calls the steps are followed to
MaxStack == GatherDepth + 3

\* the links of the trees: none, a directory that holds a link to itself, a
\* link to the parent directory, and a link to the directory two levels up
Loops ==
    {<<>>,
     [x \in {ClassDir \o <<"loop">>} |-> ClassDir],
     [x \in {Chain(1) \o <<"loop">>} |-> ClassDir],
     [x \in {Chain(1) \o <<"loop">>} |-> Chain(1)]}

\* the frames after the call _scan_directory(path, current_depth): the call
\* returns at once if path is too deep or cannot be opened
Enter(t, stack, path, current_depth, max_depth) ==
    IF TooDeep(current_depth, max_depth) \/ Real(t, path) \in t.denied THEN stack
    ELSE Append(stack, [path |-> path, current_depth |-> current_depth,
                        entries |-> Listed(Entries(t, path))])

\* scan of a call that has returned out, or has ended with the exception err
Returned(out, err) ==
    [scan EXCEPT !.stack = <<>>, !.out = out, !.all = out, !.err = err, !.called = TRUE]

\* a tree with a chain of directories deeper than every max_depth, with
\* images and with links that close a cycle
InitWalk ==
    \E D \in SUBSET {ClassDir, Chain(1), Chain(GatherDepth + 1), ClassDir \o <<"b">>},
       links \in Loops, f \in Failures :
        /\ fs = [p \in {P(x, 1, "jpg") : x \in D} |-> p]
        /\ dirs = {ClassDir} \cup UNION {Parents(x) : x \in D}
        /\ \A x \in DOMAIN links : Front(x) \in dirs
        /\ f.broken = {} /\ f.nostat = {}
        /\ scan = [t |-> [f EXCEPT !.links = links], denied |-> f.denied,
                   root |-> <<>>, max_depth |-> 0, limit |-> 0, out |-> <<>>, all |-> <<>>,
                   err |-> "none", called |-> FALSE, stack |-> <<>>, walking |-> FALSE]
        /\ NoProject
        /\ NoLoads
        /\ NoGallery
        /\ pix = <<>>
        /\ images = <<>>
        /\ history = <<>>
        /\ jobs = EmptyBag
        /\ pm_full = NoPath
        /\ page = "none"
        /\ done = FALSE
        /\ disk0 = fs
        /\ last = Call("none", "", "none", NoPath, <<>>)
        /\ run = Idle
        /\ shown = 0

\* gather_images(directory, max_depth, limit) is called: up to the first call
\* of _scan_directory
WalkCall(directory, max_depth, limit) ==
    /\ ~scan.walking
    /\ LET t == [scan.t EXCEPT !.fs = fs, !.dirs = dirs]
           called == [scan EXCEPT !.root = directory, !.max_depth = max_depth, !.limit = limit,
                                  !.walking = TRUE]
       IN  scan' = IF Exists(t, directory) = "yes"
                   THEN [called EXCEPT !.stack = Enter(t, <<>>, directory, 0, max_depth),
                                       !.called = Enter(t, <<>>, directory, 0, max_depth) = <<>>]
                   ELSE [called EXCEPT !.err = GatherRaises(t, directory), !.called = TRUE]
    /\ UNCHANGED <<fs, dirs, images, history, jobs, pm_full, page, done, disk0, last, run, shown,
                   class_chunks, class_chunk_index, sel, listing, pix, caches, thumbs>>

\* one turn of the loop of the innermost _scan_directory: it returns, or it
\* takes its next entry
WalkStep ==
    /\ scan.walking /\ ~scan.called
    /\ Len(scan.stack) < MaxStack
    /\ LET t == [scan.t EXCEPT !.fs = fs, !.dirs = dirs]
           n == Len(scan.stack)
           frame == scan.stack[n]
           back == Front(scan.stack)
           entry == Head(frame.entries)
           entry_path == P(entry.dir, entry.stem, entry.ext)
           rest == [scan.stack EXCEPT ![n].entries = Tail(frame.entries)]
       IN  IF frame.entries = <<>> \/ LimitReached(scan.out, scan.limit)
           THEN scan' = IF back = <<>> THEN Returned(scan.out, "none") ELSE [scan EXCEPT !.stack = back]
           ELSE IF entry \in t.odd THEN scan' = Returned(<<>>, "none")
           ELSE IF entry \in t.broken THEN scan' = [scan EXCEPT !.stack = rest]
           ELSE IF ~entry.isdir
           THEN scan' = [scan EXCEPT !.stack = rest,
                                     !.out = IF IsImage(entry_path) THEN Append(@, entry_path) ELSE @]
           ELSE IF Descend(frame.current_depth, scan.max_depth) /\ ~SkippedName(entry.dir[Len(entry.dir)])
           THEN scan' = [scan EXCEPT !.stack = Enter(t, rest, entry.dir, NextDepth(frame.current_depth),
                                                    scan.max_depth)]
           ELSE scan' = [scan EXCEPT !.stack = rest]
    /\ UNCHANGED <<fs, dirs, images, history, jobs, pm_full, page, done, disk0, last, run, shown,
                   class_chunks, class_chunk_index, sel, listing, pix, caches, thumbs>>

NextWalk ==
    \/ \E directory \in {ClassDir, Chain(1)}, max_depth \in 0..GatherDepth, limit \in 0..1 :
            WalkCall(directory, max_depth, limit)
    \/ WalkStep

\* the interpreter runs a call that has started until it returns
SpecWalk == InitWalk /\ [][NextWalk]_vars /\ WF_vars(WalkStep)

(***************************************************************************)
(* The counts the sorter page shows.                                       *)
(***************************************************************************)
\* count_images(dir_path) of _counts
CountImages(f, d, dir_path) ==
    IF dir_path \notin d THEN 0
    ELSE Len(GatherImages(Disk(f, d), dir_path, 3, NoLimit))

\* kc, rc, dc of SorterPage._counts and len(self.images) of _tick
Counts(f, d, q) ==
    [keep |-> CountImages(f, d, ClassDir \o <<"keep">>),
     review |-> CountImages(f, d, ClassDir \o <<"review">>),
     delete |-> CountImages(f, d, DeleteDir),
     remaining |-> Len(q)]

(***************************************************************************)
(* The queue SorterPage._unprocessed builds from the directory listing and *)
(* the bitmaps.                                                            *)
(***************************************************************************)
\* the test of image_gen on a file: an image suffix, not below keep or review
IsUnsorted(p) == IsImage(p) /\ ~Skipped(p)

\* the files image_gen yields, in the order of the listing
UnsortedImgs(files) == SelectSeq(files, IsUnsorted)

TakeAll(imgs, n) == imgs

\* the loop that stops at i >= CHUNK_SIZE
Take(imgs, n) == SubSeq(imgs, 1, Min(n, Len(imgs)))

\* load_pixmap(p): the decoded bitmap, or the placeholder
LoadPixmap(p, px) == IF p \in DOMAIN px THEN px[p] ELSE [w |-> PLACEHOLDER, h |-> PLACEHOLDER]

\* the sort key: max(load_pixmap(p).width(), load_pixmap(p).height())
MaxDim(p, px) == Max(LoadPixmap(p, px).w, LoadPixmap(p, px).h)

BeforeAscending(a, b) == a < b

\* reverse=True: the larger key first
Before(a, b) == a > b

RangeOf(q) == {q[i] : i \in 1..Len(q)}

\* imgs.sort(key=..., reverse=True): a stable sort, the images of one key
\* stay in the order they had
RECURSIVE SortedByKey(_, _, _)
SortedByKey(imgs, px, keys) ==
    IF keys = {} THEN <<>>
    ELSE LET first == CHOOSE a \in keys : \A b \in keys \ {a} : Before(a, b)
             HasKey(p) == MaxDim(p, px) = first
         IN  SelectSeq(imgs, HasKey) \o SortedByKey(imgs, px, keys \ {first})

\* SorterPage._unprocessed on the listing of the class directory
UnprocessedList(files, px) ==
    LET imgs == Take(UnsortedImgs(files), CHUNK_SIZE)
    IN  SortedByKey(imgs, px, {MaxDim(p, px) : p \in RangeOf(imgs)})

\* the bitmaps the files decode to
Bitmaps == {[w |-> 100, h |-> 300], [w |-> 300, h |-> 100], [w |-> 200, h |-> 50], [w |-> 100, h |-> 100]}

\* a small class directory, its files listed in any order, some of its
\* images decodable; no sorter page yet
InitOpen ==
    \E S \in Layouts : \E q \in Orderings(S) :
    \E D \in SUBSET {p \in S : IsImage(p)} : \E px \in [D -> Bitmaps] :
        /\ fs = [p \in S |-> p]
        /\ dirs = {ClassDir} \cup UNION {Parents(p.dir) : p \in S}
        /\ listing = [c \in {Cls} |-> q]
        /\ pix = px
        /\ class_chunks = <<>> /\ class_chunk_index = <<>> /\ sel = NoClass
        /\ NoScan
        /\ NoLoads
        /\ NoGallery
        /\ images = <<>>
        /\ history = <<>>
        /\ jobs = EmptyBag
        /\ pm_full = NoPath
        /\ page = "none"
        /\ done = FALSE
        /\ disk0 = fs
        /\ last = Call("none", "", "none", NoPath, <<>>)
        /\ run = Idle
        /\ shown = 0

\* SorterPage.__init__: the queue of _unprocessed, the first load started
Open ==
    /\ page = "none"
    /\ images' = UnprocessedList(listing[Cls], pix)
    /\ history' = <<>>
    /\ jobs' = IF images' = <<>> THEN EmptyBag ELSE SetToBag({images'[1]})
    /\ pm_full' = NoPath
    /\ page' = "open"
    /\ done' = (images' = <<>>)
    /\ shown' = 0
    /\ last' = Call("open", Cls, "none", NoPath, <<>>)
    /\ UNCHANGED <<fs, dirs, run, disk0, outside>>

NextOpen == Open

SpecOpen == InitOpen /\ [][NextOpen]_vars

(***************************************************************************)
(* A class sorted in several sessions: the page is left at any moment and  *)
(* a new SorterPage is made for the class on the disk as it is then. No    *)
(* file operation fails and the images are sorted in the order of the      *)
(* queue.                                                                  *)
(***************************************************************************)
\* the files class_dir.rglob('*') yields
Rglob(f) == {p \in DOMAIN f : UnderClassDir(p)}

\* SorterPage.__init__ on the disk as it is, the files listed in any order;
\* the loads of the page that was left are dropped with it. run keeps the
\* moves of that page.
Reopen ==
    /\ page \in {"open", "left"}
    /\ \E lst \in Orderings(Rglob(fs)) : images' = UnprocessedList(lst, pix)
    /\ history' = <<>>
    /\ jobs' = IF images' = <<>> THEN EmptyBag ELSE SetToBag({images'[1]})
    /\ pm_full' = NoPath
    /\ page' = "open"
    /\ done' = (images' = <<>>)
    /\ shown' = 0
    /\ last' = Call("open", Cls, "none", NoPath, <<>>)
    /\ UNCHANGED <<fs, dirs, run, disk0, outside>>

NextReopen ==
    \/ \E act \in Acts : Sort(act, "none", 1)
    \/ Undo("none", 1)
    \/ \E p \in BagToSet(jobs) : Loaded(p)
    \/ Reopen

SpecReopen == Init /\ [][NextReopen]_vars

(***************************************************************************)
(* The end of a chunk: a class of n images in the class root, listed by    *)
(* rglob in the order of their numbers, whose sorter page has sorted the   *)
(* first images of its queue to keep, one after the other, and has at most *)
(* MaxLeft images left in the queue. The model takes over from there: the  *)
(* images are sorted in the order of the queue or after navigation, no     *)
(* file operation fails.                                                   *)
(***************************************************************************)
MaxLeft == 2    \* images left in the queue when the model takes over

\* the images _unprocessed takes from a class of n
ChunkOf(n) == Min(n, CHUNK_SIZE)

\* the history entry of image i, sorted to keep from the class root
Kept(i) == [src |-> P(KeepDir, i, "jpg"), orig_parent |-> ClassDir, state |-> "keep"]

\* disk, queue and history of the page of a class of n images after k calls
\* of _sort('keep') that follow the opening
AfterKeeps(n, k) ==
    /\ fs = [p \in {P(KeepDir, i, "jpg") : i \in 1..k} \cup {P(ClassDir, i, "jpg") : i \in (k + 1)..n}
                |-> P(ClassDir, p.stem, "jpg")]
    /\ dirs = Parents(ClassDir) \cup (IF k > 0 THEN Parents(KeepDir) ELSE {})
    /\ images = [i \in 1..(ChunkOf(n) - k) |-> P(ClassDir, k + i, "jpg")]
    /\ history = [i \in 1..Min(k, MAX_HISTORY) |-> Kept(k - Min(k, MAX_HISTORY) + i)]

\* sizes of the class: below MaxLeft, a full chunk, a chunk and one image
FinishSizes == 0..MaxLeft \cup {CHUNK_SIZE, CHUNK_SIZE + 1}

InitFinish ==
    /\ SorterOnly
    /\ \E n \in FinishSizes :
        LET k == ChunkOf(n) - Min(ChunkOf(n), MaxLeft)
            opened == [i \in 1..n |-> P(ClassDir, i, "jpg")]
        IN  /\ AfterKeeps(n, k)
            /\ jobs = IF images = <<>> THEN EmptyBag ELSE SetToBag({images[1]})
            /\ pm_full = IF k = 0 THEN NoPath ELSE P(ClassDir, k, "jpg")
            /\ page = "open"
            /\ done = (images = <<>>)
            /\ disk0 = [p \in RangeOf(opened) |-> p]
            /\ last = IF k = 0 THEN Call("open", "", "none", NoPath, <<>>)
                      ELSE Call("sort", "keep", "none", P(ClassDir, k, "jpg"), KeepDir)
            /\ run = IF k = 0 THEN Idle
                     ELSE [k |-> k, j |-> 0, h0 |-> 0, fs0 |-> disk0, q0 |-> Take(opened, CHUNK_SIZE),
                           log |-> [i \in 1..k |-> Moved(P(ClassDir, i, "jpg"), P(KeepDir, i, "jpg"),
                                                        P(ClassDir, i, "jpg"))]]
            /\ shown = 0

NextFinish ==
    \/ \E act \in Acts : Sort(act, "none", 1)
    \/ \E s \in {1, -1} : Nav(s, 1)
    \/ \E p \in BagToSet(jobs) : Loaded(p)

SpecFinish == InitFinish /\ [][NextFinish]_vars

(***************************************************************************)
(* The start of a chunk: the page just opened on a class of n images, n    *)
(* small or around CHUNK_SIZE. The model follows the first sorts and their *)
(* undos, without navigation: at most MaxLeft images are sorted, to keep,  *)
(* and not taken back.                                                     *)
(***************************************************************************)
FullSizes == 1..(MaxLeft + 1) \cup {CHUNK_SIZE - 1, CHUNK_SIZE, CHUNK_SIZE + 1}

InitFull ==
    /\ SorterOnly
    /\ \E n \in FullSizes :
        LET lst == [i \in 1..n |-> P(ClassDir, i, "jpg")]
        IN  Opened(RangeOf(lst), UnprocessedList(lst, pix))

NextFull ==
    \/ Len(history) < MaxLeft /\ Sort("keep", "none", 1)
    \/ Undo("none", 1)
    \/ \E p \in BagToSet(jobs) : Loaded(p)

SpecFull == InitFull /\ [][NextFull]_vars

(***************************************************************************)
(* The two caches of load_pixmap (utils.py): the cache of lru_cache around *)
(* the function, and QPixmapCache inside it. A cache is a sequence of      *)
(* runs, the entry used least recently first; the run [dir, ext, lo, hi,   *)
(* pm] stands for the entries of the paths dir/lo.ext .. dir/hi.ext in     *)
(* this order, each holding the bitmap pm.                                 *)
(***************************************************************************)
CACHE_SIZE == 4096      \* utils.py: lru_cache(maxsize=4096)
QCACHE_LIMIT == 10240   \* QPixmapCache.cacheLimit() in KB, never set by the program
MaxWorkers == 1         \* pool threads that run ImageLoader.run
MaxLoads == 3           \* calls of load_pixmap for single paths
MaxOpens == 3           \* chunks of the large class opened one after the other

\* the bitmap QPixmap(200, 200) of the except branch
Placeholder == [w |-> PLACEHOLDER, h |-> PLACEHOLDER]

\* the main thread, and the threads of the pool
MainThread == 0
Workers == 1..MaxWorkers

\* the entry of one path
Run(p, pm) == [dir |-> p.dir, ext |-> p.ext, lo |-> p.stem, hi |-> p.stem, pm |-> pm]
Holds(r, p) == r.dir = p.dir /\ r.ext = p.ext /\ r.lo <= p.stem /\ p.stem <= r.hi

CachedNever(c, p) == FALSE

\* key in cache, and cache[key]
Cached(c, p) == \E i \in 1..Len(c) : Holds(c[i], p)
Pm(c, p) == c[CHOOSE i \in 1..Len(c) : Holds(c[i], p)].pm

\* the number of entries
RECURSIVE Size(_)
Size(c) == IF c = <<>> THEN 0 ELSE (c[1].hi - c[1].lo + 1) + Size(Tail(c))

\* the cache without the entry of p
Without(c, p) ==
    IF ~Cached(c, p) THEN c
    ELSE LET i == CHOOSE j \in 1..Len(c) : Holds(c[j], p)
             before == IF c[i].lo < p.stem THEN <<[c[i] EXCEPT !.hi = p.stem - 1]>> ELSE <<>>
             after == IF p.stem < c[i].hi THEN <<[c[i] EXCEPT !.lo = p.stem + 1]>> ELSE <<>>
         IN  SubSeq(c, 1, i - 1) \o before \o after \o SubSeq(c, i + 1, Len(c))

\* the cache without the entries of the paths S
RECURSIVE WithoutAll(_, _)
WithoutAll(c, S) ==
    IF S = {} THEN c
    ELSE LET p == CHOOSE x \in S : TRUE IN WithoutAll(Without(c, p), S \ {p})

\* a hit: the entry becomes the one used most recently
Touch(c, p) == Append(Without(c, p), Run(p, Pm(c, p)))

\* the cache without its n entries used least recently
RECURSIVE Evict(_, _)
Evict(c, n) ==
    IF n <= 0 \/ c = <<>> THEN c
    ELSE LET k == c[1].hi - c[1].lo + 1
         IN  IF k <= n THEN Evict(Tail(c), n - k)
             ELSE <<[c[1] EXCEPT !.lo = @ + n]>> \o Tail(c)

InsertNoEvict(c, p, pm) == Append(c, Run(p, pm))

\* lru_cache stores the result of a miss: in a full cache the entry used
\* least recently makes room
Insert(c, p, pm) == Append(IF Size(c) >= CACHE_SIZE THEN Evict(c, 1) ELSE c, Run(p, pm))

\* the cost of a pixmap in QPixmapCache: its size in KB, at least 1
Cost(pm) == Max(1, (pm.w * pm.h * 32) \div (8 * 1024))

RECURSIVE TotalCost(_)
TotalCost(q) == IF q = <<>> THEN 0 ELSE (q[1].hi - q[1].lo + 1) * Cost(q[1].pm) + TotalCost(Tail(q))

\* QCache::trim(m): entries used least recently are dropped until the total
\* cost is at most m
RECURSIVE Trim(_, _)
Trim(q, m) ==
    IF q = <<>> \/ TotalCost(q) <= m THEN q
    ELSE LET over == TotalCost(q) - m
             each == Cost(q[1].pm)
             n == Min(q[1].hi - q[1].lo + 1, (over + each - 1) \div each)
         IN  Trim(Evict(q, n), m)

\* QPixmapCache.insert(key, pm)
QInsert(q, p, pm) ==
    IF Cost(pm) > QCACHE_LIMIT THEN Without(q, p)
    ELSE Append(Trim(Without(q, p), QCACHE_LIMIT - Cost(pm)), Run(p, pm))

\* the path whose loads are followed, a file of the class directory that a
\* sort moves away and an undo moves back
Watched == P(ClassDir, 1, "jpg")

\* the large class: MaxOpens chunks of files with the suffix of an image
\* that cannot be decoded; chunk k holds the files Chunk(k).lo .. Chunk(k).hi
LargeDir == <<"dog">>
Chunk(k) ==
    [dir |-> LargeDir, ext |-> "jpg", lo |-> (k - 1) * CHUNK_SIZE + 1, hi |-> k * CHUNK_SIZE,
     pm |-> Placeholder]

\* the paths load_pixmap is called on one by one
Loadable == {Watched, P(LargeDir, CHUNK_SIZE, "jpg")}

\* the exception the try block of load_pixmap ends with for the file at p:
\* fault is the error path.exists() fails with
Failure(p, f, px, fault) ==
    IF fault /= "none" THEN fault
    ELSE IF p \notin DOMAIN f THEN "FileNotFoundError"
    ELSE IF p \notin DOMAIN px THEN "ValueError"
    ELSE "none"

CaughtOSError(failure) == failure \in {"FileNotFoundError", "PermissionError"}

\* except Exception
Caught(failure) == failure \in {"FileNotFoundError", "PermissionError", "ValueError"}

\* loads before the first call
NoReturn == [serial |-> 0, thread |-> MainThread, path |-> NoPath, pm |-> Placeholder,
             err |-> "none", from |-> "none", failure |-> "none"]
FirstLoads ==
    [n |-> 0, opened |-> 0, decodes |-> 0, seen |-> FALSE, first |-> Placeholder, held |-> FALSE,
     gone |-> FALSE, ret |-> NoReturn]

\* loads after the call of thread for p has returned pm, or has raised err
Return(thread, p, pm, err, from, failure) ==
    [loads EXCEPT
        !.ret = [serial |-> loads.ret.serial + 1, thread |-> thread, path |-> p, pm |-> pm,
                 err |-> err, from |-> from, failure |-> failure],
        !.seen = @ \/ (p = Watched /\ err = "none"),
        !.first = IF p = Watched /\ err = "none" /\ ~loads.seen THEN pm ELSE @,
        !.held = IF p = Watched THEN err = "none" ELSE @]

\* the class directory with the watched file as an image, as a file that
\* cannot be decoded, or without it; the chunks of the large class are on
\* the disk all along
InitCache ==
    \E kind \in {"image", "corrupt", "missing"} :
        /\ fs = IF kind = "missing" THEN EmptyFs ELSE [p \in {Watched} |-> p]
        /\ pix = IF kind = "image" THEN [p \in {Watched} |-> [w |-> 300, h |-> 100]] ELSE <<>>
        /\ dirs = {ClassDir, LargeDir}
        /\ lru = <<>>
        /\ qcache = <<>>
        /\ calls = <<>>
        /\ loads = [FirstLoads EXCEPT !.gone = kind /= "missing"]
        /\ NoGallery
        /\ NoProject
        /\ NoScan
        /\ images = <<>>
        /\ history = <<>>
        /\ jobs = EmptyBag
        /\ pm_full = NoPath
        /\ page = "none"
        /\ done = FALSE
        /\ disk0 = fs
        /\ last = Call("none", "", "none", NoPath, <<>>)
        /\ run = Idle
        /\ shown = 0

Elsewhere == <<dirs, images, history, jobs, pm_full, page, done, disk0, last, run, shown,
               class_chunks, class_chunk_index, sel, listing, scan, thumbs>>

\* thread calls load_pixmap(p): the wrapper of lru_cache looks p up and
\* returns the entry, or goes on to call the function
StartLoad(thread, p) ==
    /\ thread \notin DOMAIN calls
    /\ loads.n < MaxLoads
    /\ IF Cached(lru, p)
       THEN /\ lru' = Touch(lru, p)
            /\ loads' = [Return(thread, p, Pm(lru, p), "none", "lru", "none") EXCEPT !.n = @ + 1]
            /\ UNCHANGED calls
       ELSE /\ calls' = [x \in DOMAIN calls \cup {thread} |->
                            IF x = thread
                            THEN [path |-> p, phase |-> "missed", pm |-> Placeholder, err |-> "none",
                                  from |-> "none", failure |-> "none"]
                            ELSE calls[x]]
            /\ loads' = [loads EXCEPT !.n = @ + 1]
            /\ UNCHANGED lru
    /\ UNCHANGED <<fs, pix, qcache, Elsewhere>>

\* the body of load_pixmap in thread. QPixmapCache is used on the main
\* thread only: find and insert do nothing on another thread.
Body(thread, fault) ==
    /\ thread \in DOMAIN calls
    /\ calls[thread].phase = "missed"
    /\ LET p == calls[thread].path
           hit == thread = MainThread /\ Cached(qcache, p)
           failure == Failure(p, fs, pix, fault)
           raised == failure /= "none" /\ ~Caught(failure)
           pm == IF hit THEN Pm(qcache, p)
                 ELSE IF failure = "none" THEN LoadPixmap(p, pix) ELSE Placeholder
       IN  /\ hit => fault = "none"
           /\ calls' = [calls EXCEPT ![thread] =
                            [@ EXCEPT !.phase = "computed", !.pm = pm,
                                      !.err = IF hit \/ ~raised THEN "none" ELSE failure,
                                      !.from = IF hit THEN "qcache" ELSE "decode",
                                      !.failure = IF hit THEN "none" ELSE failure]]
           /\ qcache' = IF thread /= MainThread \/ (~hit /\ raised) THEN qcache
                        ELSE IF hit THEN Touch(qcache, p)
                        ELSE QInsert(qcache, p, pm)
           /\ loads' = IF hit \/ p /= Watched THEN loads ELSE [loads EXCEPT !.decodes = @ + 1]
    /\ UNCHANGED <<fs, pix, lru, Elsewhere>>

\* the wrapper of lru_cache after the function has returned: the result is
\* stored unless another call has stored the key meanwhile; an exception is
\* handed on and nothing is stored
Finish(thread) ==
    /\ thread \in DOMAIN calls
    /\ calls[thread].phase = "computed"
    /\ LET c == calls[thread]
       IN  /\ lru' = IF c.err /= "none" \/ Cached(lru, c.path) THEN lru ELSE Insert(lru, c.path, c.pm)
           /\ loads' = Return(thread, c.path, c.pm, c.err, c.from, c.failure)
    /\ calls' = [x \in DOMAIN calls \ {thread} |-> calls[x]]
    /\ UNCHANGED <<fs, pix, qcache, Elsewhere>>

\* the main thread opens the next chunk of the large class: _unprocessed
\* calls load_pixmap on each of its CHUNK_SIZE files, one after the other.
\* The files are loaded (or, loaded one by one before, found in the cache)
\* in the order of the chunk and become the entries used most recently;
\* every file stored in the full cache takes out the entry used least
\* recently.
OpenChunk ==
    /\ calls = <<>>
    /\ loads.opened < MaxOpens
    /\ LET chunk == Chunk(loads.opened + 1)
           known == {p \in Loadable : Holds(chunk, p)}
           others == WithoutAll(lru, known)
       IN  /\ lru' = Evict(Append(others, chunk), Size(others) + CHUNK_SIZE - CACHE_SIZE)
           /\ qcache' = Trim(Append(WithoutAll(qcache, known), chunk), QCACHE_LIMIT)
    /\ loads' = [loads EXCEPT !.opened = @ + 1, !.held = FALSE]
    /\ UNCHANGED <<fs, pix, calls, Elsewhere>>

\* a sort moves the watched file away
Disappear ==
    /\ MainThread \notin DOMAIN calls
    /\ Watched \in DOMAIN fs
    /\ fs' = EmptyFs
    /\ pix' = <<>>
    /\ UNCHANGED <<lru, qcache, calls, loads, Elsewhere>>

\* an undo moves the watched file back, or a move brings an image to its path
Appear ==
    /\ MainThread \notin DOMAIN calls
    /\ Watched \notin DOMAIN fs
    /\ fs' = [p \in {Watched} |-> p]
    /\ pix' = [p \in {Watched} |-> [w |-> 300, h |-> 100]]
    /\ loads' = [loads EXCEPT !.gone = TRUE]
    /\ UNCHANGED <<lru, qcache, calls, Elsewhere>>

NextCache ==
    \/ \E thread \in {MainThread} \cup Workers, p \in Loadable : StartLoad(thread, p)
    \/ \E thread \in {MainThread} \cup Workers, fault \in {"none", "PermissionError"} : Body(thread, fault)
    \/ \E thread \in {MainThread} \cup Workers : Finish(thread)
    \/ OpenChunk
    \/ Disappear
    \/ Appear

SpecCache == InitCache /\ [][NextCache]_vars

(***************************************************************************)
(* The sorter page with its worker pool: a class of two unsorted images,   *)
(* no failing file operation. A load started by _load_async waits in the   *)
(* pool until one of its threads takes it; the thread runs ImageLoader.run *)
(* (load_pixmap, then done.emit), and the completion waits in the event    *)
(* queue of the main thread until _loaded is called with it. calls maps a  *)
(* pool thread to the task it runs, loads is the queue of completions.     *)
(* The images are sorted to keep: the pool never reads the destination.    *)
(***************************************************************************)
MaxTasks == 3           \* loads started and not yet handled, with the pool

\* the bitmaps of the two images, the second the larger
PoolPix == [p \in LoadFiles |-> [w |-> 100, h |-> 100 * p.stem]]

DirectConnection == "direct"

\* job.sig.done.connect(self._loaded): the slot belongs to a QObject of the
\* main thread and the signal is emitted on a pool thread, so the call is
\* queued to the main thread
Connection == "queued"

\* the tasks for p that run, the completions for p that wait, and the tasks
\* for p no thread has taken yet
Running(p) == Cardinality({t \in DOMAIN calls : calls[t].path = p})
Emitted(p) == Cardinality({i \in 1..Len(loads) : loads[i].path = p})
Waiting(p) == CopiesIn(p, jobs) - Running(p) - Emitted(p)

\* _unprocessed has called load_pixmap on every image of the class in the
\* main thread, so lru_cache holds both bitmaps; or so many other images
\* have been loaded since that it holds neither
InitPool ==
    /\ NoProject
    /\ NoScan
    /\ NoGallery
    /\ pix = PoolPix
    /\ qcache = <<>>
    /\ calls = <<>>
    /\ loads = <<>>
    /\ \E lst \in Orderings(LoadFiles) :
        /\ Opened(LoadFiles, UnprocessedList(lst, PoolPix))
        /\ lru \in {<<>>, <<Run(lst[1], PoolPix[lst[1]]), Run(lst[2], PoolPix[lst[2]])>>}

\* a thread of the pool takes a task for p and starts ImageLoader.run
TakeTask(thread, p) ==
    /\ thread \notin DOMAIN calls
    /\ Waiting(p) > 0
    /\ calls' = [x \in DOMAIN calls \cup {thread} |-> IF x = thread THEN [path |-> p] ELSE calls[x]]
    /\ UNCHANGED <<fs, dirs, images, history, jobs, pm_full, page, done, disk0, last, run, shown,
                   class_chunks, class_chunk_index, sel, listing, pix, scan, lru, qcache, loads,
                   thumbs>>

\* ImageLoader.run in a thread of the pool: load_pixmap(path) through
\* lru_cache (QPixmapCache does nothing outside the main thread), then
\* done.emit(str(path), pixmap)
RunTask(thread) ==
    /\ thread \in DOMAIN calls
    /\ LET p == calls[thread].path
           pm == IF Cached(lru, p) THEN Pm(lru, p)
                 ELSE IF Failure(p, fs, pix, "none") = "none" THEN LoadPixmap(p, pix)
                 ELSE Placeholder
       IN  /\ lru' = IF Cached(lru, p) THEN Touch(lru, p) ELSE Insert(lru, p, pm)
           /\ IF Connection = "queued"
              THEN /\ loads' = Append(loads, [path |-> p, pm |-> pm])
                   /\ UNCHANGED <<images, history, jobs, pm_full, page, done, last, run, shown>>
              ELSE /\ loads' = loads
                   /\ Handled(p)
    /\ calls' = [x \in DOMAIN calls \ {thread} |-> calls[x]]
    /\ UNCHANGED <<fs, dirs, disk0, class_chunks, class_chunk_index, sel, listing, pix, scan, qcache,
                   thumbs>>

\* the event loop of the main thread calls _loaded with the completion that
\* was emitted first
Deliver ==
    /\ loads /= <<>>
    /\ Handled(Head(loads).path)
    /\ loads' = Tail(loads)
    /\ UNCHANGED <<fs, dirs, disk0, class_chunks, class_chunk_index, sel, listing, pix, scan,
                   lru, qcache, calls, thumbs>>

NextPool ==
    \/ Sort("keep", "none", MaxTasks)
    \/ Undo("none", MaxTasks)
    \/ \E s \in {1, -1} : Nav(s, MaxTasks)
    \/ \E thread \in Workers, p \in LoadFiles : TakeTask(thread, p)
    \/ \E thread \in Workers : RunTask(thread)
    \/ Deliver

SpecPool == InitPool /\ [][NextPool]_vars

\* the pool runs every task it was given and the event loop handles every
\* completion that was emitted
SpecPoolFair ==
    /\ SpecPool
    /\ WF_vars(\E thread \in Workers, p \in LoadFiles : TakeTask(thread, p))
    /\ WF_vars(\E thread \in Workers : RunTask(thread))
    /\ WF_vars(Deliver)

(***************************************************************************)
(* The project page: the classes of a project, their chunks of unsorted    *)
(* images and the active chunk of each class. The disk is the listing of   *)
(* each class directory.                                                   *)
(***************************************************************************)
ProjClasses == {"cat", "dog"}

\* the files of class c with n unsorted images: an image already kept, a
\* sidecar and the images 1..n in the class root
ClassFiles(c, n) ==
    <<P(<<c, "keep">>, 1, "jpg"), P(<<c>>, 1, "txt")>> \o [i \in 1..n |-> P(<<c>>, i, "jpg")]

\* numbers of unsorted images around the chunk boundaries
Sizes == {0, 1} \cup {k * CHUNK_SIZE + e : k \in 1..MaxChunks, e \in {0, 1}}

\* the directories of base: the classes and the delete folder
BaseDirs(n) ==
    [c \in ProjClasses \cup {"delete"} |->
        IF c = "cat" THEN ClassFiles(c, n)
        ELSE IF c = "dog" THEN ClassFiles(c, CHUNK_SIZE + 1)
        ELSE <<P(<<"delete", "cat">>, 1, "jpg")>>]

\* the directories _populate lists as classes
ClassNames(lst) == {c \in DOMAIN lst : c /= "delete"}

SliceShort(imgs, i) == SubSeq(imgs, i + 1, Min(i + CHUNK_SIZE - 1, Len(imgs)))

\* unsorted_imgs[i:i+self.CHUNK_SIZE]
Slice(imgs, i) == SubSeq(imgs, i + 1, Min(i + CHUNK_SIZE, Len(imgs)))

\* num_chunks of _populate
NumChunks(total_unsorted) ==
    IF total_unsorted /= 0 THEN (total_unsorted + CHUNK_SIZE - 1) \div CHUNK_SIZE ELSE 1

\* chunks of _populate: one slice for every i of range(0, total, CHUNK_SIZE),
\* and [[]] when there is none
Chunks(unsorted_imgs) ==
    LET total_unsorted == Len(unsorted_imgs)
        steps == (total_unsorted + CHUNK_SIZE - 1) \div CHUNK_SIZE
        chunks == [k \in 1..steps |-> Slice(unsorted_imgs, (k - 1) * CHUNK_SIZE)]
    IN  IF chunks = <<>> THEN << <<>> >> ELSE chunks

PreviousChunkIndex(c) == class_chunk_index[c]

\* self.class_chunk_index[d.name] = 0
InitialChunkIndex(c) == 0

ClampNever(idx, num_chunks) == idx

\* max(0, min(num_chunks-1, idx+delta)) of _change_chunk
Clamp(idx, num_chunks) == Max(0, Min(num_chunks - 1, idx))

\* the deltas _change_chunk is called with (the buttons pass -1 and 1)
Deltas == {-2, -1, 1, 2}

\* ProjectPage.__init__ on the base directory lst: _populate on empty dicts
InitProject ==
    \E n \in Sizes :
        /\ listing = BaseDirs(n)
        /\ class_chunks = [c \in ClassNames(listing) |-> Chunks(UnsortedImgs(listing[c]))]
        /\ class_chunk_index = [c \in ClassNames(listing) |-> 0]
        /\ sel = NoClass
        /\ pix = <<>>
        /\ NoScan
        /\ NoLoads
        /\ NoGallery
        /\ fs = <<>>
        /\ dirs = {}
        /\ images = <<>>
        /\ history = <<>>
        /\ jobs = EmptyBag
        /\ pm_full = NoPath
        /\ page = "project"
        /\ done = FALSE
        /\ disk0 = listing
        /\ last = Call("populate", "", "none", NoPath, <<>>)
        /\ run = Idle
        /\ shown = 0

sorter == <<fs, dirs, images, history, jobs, pm_full, page, done, run, shown>>

\* ProjectPage._populate: list.clear() leaves no current item; the chunks
\* of every class are built from the directory, the indexes set
Populate ==
    /\ sel' = NoClass
    /\ class_chunks' = [c \in ClassNames(listing) |-> Chunks(UnsortedImgs(listing[c]))]
    /\ class_chunk_index' = [c \in ClassNames(listing) |-> InitialChunkIndex(c)]
    /\ disk0' = listing
    /\ last' = Call("populate", "", "none", NoPath,
                    <<class_chunk_index["cat"], class_chunk_index["dog"]>>)
    /\ UNCHANGED <<listing, pix, scan, caches, thumbs>>

\* the user picks an item of the class list, or none: _selection_changed
\* reads the chunks and the index and changes neither
Select(c) ==
    /\ page = "project"
    /\ sel' = c
    /\ last' = Call("select", c, "none", NoPath, <<>>)
    /\ UNCHANGED <<class_chunks, class_chunk_index, listing, pix, scan, caches, thumbs, disk0, sorter>>

\* ProjectPage._change_chunk(delta)
ChangeChunk(delta) ==
    /\ page = "project"
    /\ IF sel = NoClass
       THEN UNCHANGED <<class_chunk_index, last>>
       ELSE LET idx == class_chunk_index[sel]
                num_chunks == Len(class_chunks[sel])
            IN  /\ class_chunk_index' = [class_chunk_index EXCEPT ![sel] = Clamp(idx + delta, num_chunks)]
                /\ last' = Call("chunk", sel, "none", NoPath, <<idx, delta>>)
    /\ UNCHANGED <<class_chunks, sel, listing, pix, scan, caches, thumbs, disk0, sorter>>

\* ProjectPage._launch(currentItem) and MainWindow._open_sorter: a
\* SorterPage is built for the class and shown
Launch ==
    /\ page = "project"
    /\ sel /= NoClass
    /\ images' = UnprocessedList(listing[sel], pix)
    /\ history' = <<>>
    /\ jobs' = IF images' = <<>> THEN EmptyBag ELSE SetToBag({images'[1]})
    /\ pm_full' = NoPath
    /\ page' = "open"
    /\ done' = (images' = <<>>)
    /\ shown' = 0
    /\ last' = Call("open", sel, "none", NoPath, <<>>)
    /\ UNCHANGED <<fs, dirs, run, disk0, outside>>

\* the sorter page emits back_project_home: MainWindow._back_project_page
\* calls _populate on the project page and shows it
BackProjectPage ==
    /\ page = "open"
    /\ page' = "project"
    /\ Populate
    /\ UNCHANGED <<fs, dirs, images, history, jobs, pm_full, done, run, shown>>

\* while the sorter page is shown, images are sorted or files are added:
\* the directory of class cat holds another number of unsorted images
DiskChanges(n) ==
    /\ page = "open"
    /\ listing' = [listing EXCEPT !["cat"] = ClassFiles("cat", n)]
    /\ listing' /= listing
    /\ UNCHANGED <<class_chunks, class_chunk_index, sel, pix, scan, caches, thumbs, disk0, last, sorter>>

NextProject ==
    \/ \E c \in ProjClasses \cup {NoClass} : Select(c)
    \/ \E delta \in Deltas : ChangeChunk(delta)
    \/ Launch
    \/ BackProjectPage
    \/ \E n \in Sizes : DiskChanges(n)

SpecProject == InitProject /\ [][NextProject]_vars

(***************************************************************************)
(* The class list of ProjectPage._populate: the entries of the base        *)
(* directory sorted by sort_key. A name is compared through its characters *)
(* (Chars); listing holds the entries of the base directory, dirs those    *)
(* that are directories.                                                   *)
(***************************************************************************)
MaxClasses == 4     \* entries of the base directory

\* the names of the entries of a base directory
Names == {"2", "10", "07", "A", "a1", "b", "B", "delete"}

\* the characters of a name
Chars(name) ==
    CASE name = "2" -> <<"2">>
      [] name = "10" -> <<"1", "0">>
      [] name = "07" -> <<"0", "7">>
      [] name = "A" -> <<"A">>
      [] name = "a1" -> <<"a", "1">>
      [] name = "b" -> <<"b">>
      [] name = "B" -> <<"B">>
      [] name = "delete" -> <<"d", "e", "l", "e", "t", "e">>

\* the characters of the names in the order of their code points
CodePoints == <<"0", "1", "2", "7", "A", "B", "a", "b", "d", "e", "l", "t">>
Ord(ch) == CHOOSE i \in 1..Len(CodePoints) : CodePoints[i] = ch

\* str.isdigit() and int() on the characters of a name
Digits == <<"0", "1", "2", "3", "4", "5", "6", "7", "8", "9">>
IsDigit(chars) == chars /= <<>> /\ \A i \in 1..Len(chars) : chars[i] \in RangeOf(Digits)
RECURSIVE IntOf(_)
IntOf(chars) ==
    IF chars = <<>> THEN 0
    ELSE IntOf(Front(chars)) * 10 + (CHOOSE v \in 0..9 : Digits[v + 1] = chars[Len(chars)])

\* str.lower()
LowerChar(ch) == CASE ch = "A" -> "a" [] ch = "B" -> "b" [] OTHER -> ch
LowerName(chars) == [i \in 1..Len(chars) |-> LowerChar(chars[i])]

\* a < b for strings
RECURSIVE StrLess(_, _)
StrLess(a, b) ==
    IF b = <<>> THEN FALSE
    ELSE IF a = <<>> THEN TRUE
    ELSE IF a[1] /= b[1] THEN Ord(a[1]) < Ord(b[1])
    ELSE StrLess(Tail(a), Tail(b))

SortKeyText(name) == [rank |-> 1, num |-> 0, text |-> LowerName(Chars(name))]

\* sort_key: (0, int(p.name)) if p.name.isdigit() else (1, p.name.lower())
SortKey(name) ==
    IF IsDigit(Chars(name)) THEN [rank |-> 0, num |-> IntOf(Chars(name)), text |-> <<>>]
    ELSE [rank |-> 1, num |-> 0, text |-> LowerName(Chars(name))]

\* k1 < k2 for the tuples sort_key returns
KeyLess(k1, k2) ==
    \/ k1.rank < k2.rank
    \/ k1.rank = k2.rank /\ k1.num < k2.num
    \/ k1.rank = k2.rank /\ k1.num = k2.num /\ StrLess(k1.text, k2.text)

\* sorted(entries, key=sort_key): a stable sort
RECURSIVE SortedEntries(_)
SortedEntries(entries) ==
    IF entries = <<>> THEN <<>>
    ELSE LET rest == SortedEntries(Front(entries))
             d == entries[Len(entries)]
             n == Cardinality({i \in 1..Len(rest) : ~KeyLess(SortKey(d), SortKey(rest[i]))})
         IN  SubSeq(rest, 1, n) \o <<d>> \o SubSeq(rest, n + 1, Len(rest))

\* d.is_dir() and d.name != 'delete'
IsClass(d, name) == <<name>> \in d /\ name /= "delete"

\* classes of _populate, iterdir being the order in which base.iterdir()
\* yields the entries
ClassList(d, iterdir) == SelectSeq(SortedEntries(iterdir), LAMBDA name : IsClass(d, name))

\* a base directory of up to MaxClasses entries, all of them directories
\* but, at times, the entry 07
InitClasses ==
    \E D \in SUBSET Names, F \in SUBSET {"07"} :
        /\ Cardinality(D) <= MaxClasses
        /\ F \subseteq D
        /\ listing = [name \in D |-> <<>>]
        /\ dirs = {<<name>> : name \in D \ F}
        /\ class_chunks = <<>>
        /\ class_chunk_index = <<>>
        /\ sel = NoClass
        /\ pix = <<>>
        /\ NoScan
        /\ NoLoads
        /\ NoGallery
        /\ fs = <<>>
        /\ images = <<>>
        /\ history = <<>>
        /\ jobs = EmptyBag
        /\ pm_full = NoPath
        /\ page = "project"
        /\ done = FALSE
        /\ disk0 = listing
        /\ last = Call("none", "", "none", NoPath, <<>>)
        /\ run = Idle
        /\ shown = 0

\* _populate builds the class list; last.to is the list
ListClasses(iterdir) ==
    /\ page = "project"
    /\ last.op = "none"
    /\ last' = Call("classes", "", "none", NoPath, ClassList(dirs, iterdir))
    /\ UNCHANGED <<fs, dirs, images, history, jobs, pm_full, page, done, disk0, run, shown, outside>>

NextClasses == \E iterdir \in Orderings(DOMAIN listing) : ListClasses(iterdir)

SpecClasses == InitClasses /\ [][NextClasses]_vars

(***************************************************************************)
(* The gallery page (gallery.py): one thumbnail for every image that       *)
(* gather_images finds in class_dir/keep, class_dir/review and             *)
(* base/delete/class, and the toggle of a thumbnail by a double click.     *)
(***************************************************************************)
MaxThumbs == 3          \* files in the state folders when the gallery is opened
GALLERY_DEPTH == 2      \* gallery.py: gather_images(dir_, max_depth=2)

KeepSub == KeepDir \o <<"sub">>

\* the files that may be in the state folders: images of the same name in
\* keep, in a subfolder of keep and in review, sidecars next to two of them,
\* an image of another name in review and in the delete folder
GalleryFiles0 ==
    {P(KeepDir, 1, "jpg"), P(KeepDir, 1, "txt"), P(KeepSub, 1, "jpg"),
     P(ReviewDir, 1, "jpg"), P(ReviewDir, 2, "jpg"), P(ReviewDir, 2, "txt"),
     P(DeleteDir, 2, "jpg")}

GalleryLayouts == {S \in SUBSET GalleryFiles0 : Cardinality(S) <= MaxThumbs}

States == <<"keep", "review", "delete">>

\* self.entries of GalleryPage.__init__ on the disk t: the images of each
\* state folder that exists, with the state; img is the file the thumbnail
\* was made for
EntriesOf(t) ==
    LET Found(st) == IF Exists(t, DstDir(st)) = "yes"
                     THEN GatherImages(t, DstDir(st), GALLERY_DEPTH, NoLimit) ELSE <<>>
        Labels(st) == [i \in 1..Len(Found(st)) |-> [path |-> Found(st)[i], state |-> st, img |-> Found(st)[i]]]
    IN  Labels(States[1]) \o Labels(States[2]) \o Labels(States[3])

\* nxt of _toggle
Nxt(state) ==
    CASE state = "keep" -> "review"
      [] state = "review" -> "delete"
      [] state = "delete" -> "keep"

\* whether the file operation named by fault is one this call of _toggle makes
ToggleFaultApplies(f, d, src, dst_dir, fault) ==
    CASE fault = "none" -> TRUE
      [] fault = "mkdir" -> dst_dir \notin d
      [] fault = "image" -> TRUE
      [] fault = "sidecar" -> /\ src \in DOMAIN f
                              /\ HasAnn(Rename(f, src, Dst(src, dst_dir)), Ann(src))

\* the file operations of _toggle: mkdir, the move of the image, the move
\* of its sidecar; the disk and directories they leave, the exception
\* raised (err) and new_path
ToggleMove(f, d, src, dst_dir, fault) ==
    LET new_path == Dst(src, dst_dir)
        d1 == d \cup Parents(dst_dir)
    IN  IF fault = "mkdir"
        THEN [fs |-> f, dirs |-> d, err |-> "mkdir", ret |-> NoPath]
        ELSE IF fault = "image" \/ src \notin DOMAIN f
        THEN [fs |-> f, dirs |-> d1, err |-> "image", ret |-> NoPath]
        ELSE LET f1 == Rename(f, src, new_path)
                 ann_old == Ann(src)
             IN  IF ~HasAnn(f1, ann_old)
                 THEN [fs |-> f1, dirs |-> d1, err |-> "none", ret |-> new_path]
                 ELSE IF fault = "sidecar"
                 THEN [fs |-> f1, dirs |-> d1, err |-> "sidecar", ret |-> NoPath]
                 ELSE [fs |-> Rename(f1, ann_old, Dst(ann_old, dst_dir)), dirs |-> d1,
                       err |-> "none", ret |-> new_path]

\* GalleryPage.__init__ on a small disk
InitGallery ==
    /\ \E S \in GalleryLayouts :
        /\ fs = [p \in S |-> p]
        /\ dirs = Parents(ClassDir) \cup UNION {Parents(p.dir) : p \in S}
    /\ thumbs = EntriesOf(Disk(fs, dirs))
    /\ NoProject
    /\ pix = <<>>
    /\ NoScan
    /\ NoLoads
    /\ images = <<>>
    /\ history = <<>>
    /\ jobs = EmptyBag
    /\ pm_full = NoPath
    /\ page = "gallery"
    /\ done = FALSE
    /\ disk0 = fs
    /\ last = Call("open", Cls, "none", NoPath, <<>>)
    /\ run = Idle
    /\ shown = 0

\* GalleryPage._toggle(lbl) for the thumbnail i; nothing in it catches the
\* exception of a file operation
Toggle(i, fault) ==
    /\ page = "gallery"
    /\ i \in 1..Len(thumbs)
    /\ LET lbl == thumbs[i]
           nxt == Nxt(lbl.state)
           dst_dir == DstDir(nxt)
           r == ToggleMove(fs, dirs, lbl.path, dst_dir, fault)
       IN  /\ ToggleFaultApplies(fs, dirs, lbl.path, dst_dir, fault)
           /\ fs' = r.fs
           /\ dirs' = r.dirs
           /\ thumbs' = IF r.err /= "none" THEN thumbs
                        ELSE [thumbs EXCEPT ![i] = [@ EXCEPT !.path = r.ret, !.state = nxt]]
           /\ last' = Call("toggle", nxt, r.err, lbl.path, <<i>>)
    /\ UNCHANGED <<images, history, jobs, pm_full, page, done, disk0, run, shown,
                   class_chunks, class_chunk_index, sel, listing, pix, scan, caches>>

NextGallery == \E i \in 1..MaxThumbs, fault \in Faults : Toggle(i, fault)

SpecGallery == InitGallery /\ [][NextGallery]_vars

(***************************************************************************)
(* Properties.                                                             *)
(***************************************************************************)
\* the step delivers a load; every other step is a call of a handler,
\* described by last'
Delivered == BagCardinality(jobs') < BagCardinality(jobs)

SortReturned == ~Delivered /\ last'.op = "sort" /\ last'.err = "none" /\ last'.src /= NoPath
SortRaised == ~Delivered /\ last'.op = "sort" /\ last'.err /= "none"
UndoReturned == ~Delivered /\ last'.op = "undo" /\ last'.err = "none" /\ last'.src /= NoPath
UndoRaised == ~Delivered /\ last'.op = "undo" /\ last'.err /= "none"
AfterSort == last.op = "sort" /\ last.err = "none" /\ last.src /= NoPath

\* the directory of a state: class_dir/keep, class_dir/review, base/delete/class
StateDir(act) == IF act = "delete" THEN <<"delete", Cls>> ELSE <<Cls, act>>
At(p, d) == [p EXCEPT !.dir = d]
Txt(p) == [p EXCEPT !.ext = "txt"]
Holders(c) == {q \in DOMAIN fs : fs[q] = c}

\* C1: a successful sort moves the head image and leaves the rest of the
\* queue; an undo called right after it puts the same file back at its
\* pre-sort path (also below a subfolder), makes that path the head of the
\* queue in front of the unchanged rest, and shortens the history by one.
RoundTrip ==
    [][/\ SortReturned =>
            /\ images /= <<>> /\ last'.src = images[1] /\ images' = Tail(images)
            /\ At(images[1], last'.to) \in DOMAIN fs'
            /\ fs'[At(images[1], last'.to)] = fs[images[1]]
       /\ (AfterSort /\ UndoReturned) =>
            /\ last.src \in DOMAIN fs'
            /\ fs'[last.src] = fs[At(last.src, last.to)]
            /\ At(last.src, last.to) \notin DOMAIN fs'
            /\ images' = <<last.src>> \o images
            /\ Len(history') = Len(history) - 1]_vars

\* an undo that directly follows a sort has returned an image to the
\* subfolder it came from, in front of a queue that holds another image
RoundTripReached ==
    /\ run.k >= 1 /\ run.j = 1
    /\ last.op = "undo" /\ last.err = "none" /\ last.to = SubDir
    /\ Len(images) >= 2 /\ images[1].dir = SubDir /\ images[1] \in DOMAIN fs

\* C2: every image file on disk when the class was opened is still on disk,
\* at exactly one path.
NoImageLost ==
    \A c \in DOMAIN disk0 : IsImage(c) => Cardinality(Holders(c)) = 1

\* C3: a sort whose file operation raises leaves the queue and the history
\* unchanged, with the image still at the head and the head path naming the
\* place where the image file is.
SortFailureKeepsState ==
    [][SortRaised =>
            /\ images' = images
            /\ history' = history
            /\ images' /= <<>>
            /\ images[1] \in DOMAIN fs => (images'[1] \in DOMAIN fs' /\ fs'[images'[1]] = fs[images[1]])]_vars

\* C4: an undo whose file operation raises does not pop the history entry:
\* the history and the queue are as before the call.
UndoFailureKeepsEntry ==
    [][UndoRaised => (history' = history /\ images' = images)]_vars

\* C5: every queue path names an existing image file of the unsorted pool and
\* every history entry's new path names an existing image file in the
\* directory of the entry's state.
QueueHistoryFsAgree ==
    /\ \A i \in 1..Len(images) :
            /\ images[i] \in DOMAIN fs
            /\ IsImage(images[i])
            /\ images[i].dir \in {ClassDir, SubDir}
    /\ \A i \in 1..Len(history) :
            /\ history[i].src \in DOMAIN fs
            /\ IsImage(history[i].src)
            /\ history[i].src.dir = StateDir(history[i].state)

\* C6: a successful sort of the head image moves the file to class_dir/keep,
\* class_dir/review or base/delete/class (an existing directory afterwards)
\* and away from its previous path, pushes the entry (new path, previous
\* parent, action) as the most recent one, removes the head from the queue
\* and starts a load of the new head.
SortEffect ==
    [][SortReturned =>
        LET src == images[1]
            act == last'.act
            new == At(src, StateDir(act))
            entry == [src |-> new, orig_parent |-> src.dir, state |-> act]
        IN  /\ images /= <<>>
            /\ new \in DOMAIN fs'
            /\ fs'[new] = fs[src]
            /\ src \notin DOMAIN fs'
            /\ StateDir(act) \in dirs'
            /\ history' /= <<>>
            /\ history'[Len(history')] = entry
            /\ Len(history) < MAX_HISTORY => history' = Append(history, entry)
            /\ images' = Tail(images)
            /\ images' /= <<>> => jobs' = jobs (+) SetToBag({images'[1]})]_vars

\* a sort to delete has returned: the file is in base/delete/class and the
\* load of the new head is in flight
SortEffectReached ==
    /\ last.op = "sort" /\ last.err = "none" /\ last.act = "delete"
    /\ At(last.src, StateDir("delete")) \in DOMAIN fs
    /\ images /= <<>> /\ BagIn(images[1], jobs)

\* C7: the history never holds more than MAX_HISTORY entries. After k
\* consecutive successful sorts it holds min(h0 + k, MAX_HISTORY) entries (h0
\* before them); the undo calls that follow take back the most recent moves
\* first, one per call, as long as the history holds an entry, and a further
\* undo leaves the files sorted before that where they are.
BoundedHistory ==
    /\ Len(history) <= MAX_HISTORY
    /\ run.k > 0 =>
        LET avail == Min(run.h0 + run.k, MAX_HISTORY)
            u == Min(run.j, avail)
            back == Min(u, run.k)
        IN  /\ Len(history) = avail - u
            /\ \A i \in 1..run.k :
                LET m == run.log[i]
                IN  IF i > run.k - back
                    THEN /\ m.src \in DOMAIN fs /\ fs[m.src] = m.content
                         /\ m.dst \notin DOMAIN fs
                    ELSE /\ m.dst \in DOMAIN fs /\ fs[m.dst] = m.content
                         /\ m.src \notin DOMAIN fs

\* more than MAX_HISTORY sorts in a row, then more than MAX_HISTORY undo
\* calls: the history is empty and the first sorted image is still in keep
HistoryOverflowUndone ==
    /\ run.k > MAX_HISTORY /\ run.j > MAX_HISTORY
    /\ history = <<>>
    /\ run.log[1].dst \in DOMAIN fs

\* C8: after k consecutive successful sorts (k <= MAX_HISTORY), j <= k undo
\* calls have taken back exactly the last j moves, and k undo calls leave the
\* disk and the queue as they were before the first of the sorts.
UndoIsStackOrdered ==
    (run.k >= 1 /\ run.k <= MAX_HISTORY /\ run.j >= 1 /\ run.j <= run.k) =>
        /\ \A i \in 1..run.k :
            LET m == run.log[i]
            IN  IF i > run.k - run.j
                THEN m.src \in DOMAIN fs /\ fs[m.src] = m.content
                ELSE m.dst \in DOMAIN fs /\ fs[m.dst] = m.content
        /\ run.j = run.k => (fs = run.fs0 /\ images = run.q0)

\* C9: a sort or undo that returns after moving an image with a same-basename
\* .txt file next to it has moved both: image and .txt are in the destination
\* directory and neither is in the source directory.
SidecarCoMoves ==
    [][((SortReturned \/ UndoReturned)
            /\ last'.src \in DOMAIN fs /\ Txt(last'.src) \in DOMAIN fs
            /\ last'.src.dir /= last'.to) =>
        LET src == last'.src
            dst == At(src, last'.to)
        IN  /\ dst \in DOMAIN fs' /\ fs'[dst] = fs[src]
            /\ Txt(dst) \in DOMAIN fs' /\ fs'[Txt(dst)] = fs[Txt(src)]
            /\ src \notin DOMAIN fs'
            /\ Txt(src) \notin DOMAIN fs']_vars

\* an undo has brought an image and its .txt file back from keep to the
\* subfolder they were sorted from
SidecarCoMovesReached ==
    /\ last.op = "undo" /\ last.err = "none" /\ last.src.dir = KeepDir /\ last.to = SubDir
    /\ At(last.src, SubDir) \in DOMAIN fs
    /\ Txt(At(last.src, SubDir)) \in DOMAIN fs
    /\ fs[Txt(At(last.src, SubDir))] = Txt(At(last.src, SubDir))
    /\ Txt(last.src) \notin DOMAIN fs

\* C10: _move of an existing image to the directory it is in changes no file
\* on disk and raises nothing.
SameDestinationNoOp ==
    [][(last'.op = "move" /\ last'.src \in DOMAIN fs /\ IsImage(last'.src)
            /\ last'.src.dir = last'.to) =>
        (fs' = fs /\ last'.err = "none")]_vars

\* _move has been called on an image with a sidecar and the directory that
\* holds them
SameDestinationReached ==
    /\ last.op = "move" /\ last.err = "none"
    /\ last.src.dir = last.to
    /\ IsImage(last.src) /\ last.src \in DOMAIN fs /\ Txt(last.src) \in DOMAIN fs

\* C11: a completed load whose path is not the head of the queue when it is
\* delivered leaves the displayed bitmap as it is, whatever sort, undo and
\* navigate calls came between its request and its delivery.
StaleDiscarded ==
    [][\A p \in BagToSet(jobs) :
        (CopiesIn(p, jobs') < CopiesIn(p, jobs) /\ (images = <<>> \/ images[1] /= p)) =>
            pm_full' = pm_full]_vars

\* the load of the first image was delivered after that image was sorted:
\* nothing is displayed and only the load of the new head is in flight
StaleDiscardedReached ==
    /\ last.op = "sort" /\ last.err = "none" /\ history /= <<>>
    /\ images /= <<>> /\ jobs = SetToBag({images[1]})
    /\ pm_full = NoPath

\* C12: each time _load_async starts a load of the head, the display is
\* updated at most once before the next such call (and once when that load is
\* delivered with the head unchanged).
AppliedOnce == shown <= 1

NavStep == ~Delivered /\ last'.op = "nav"

\* C17: a navigation moves every path of the queue by one position, next
\* towards the front and prev towards the back, the path at the end coming
\* round; it changes no file, no directory and no history entry. A prev
\* right after a next (and a next right after a prev) gives the queue
\* before the two, and as many navigations in one direction as the queue
\* is long give the queue before them.
NavRotates ==
    [][NavStep =>
        LET n == Len(images)
            s == IF last'.act = "prev" THEN 1 ELSE -1
        IN  /\ fs' = fs /\ dirs' = dirs /\ history' = history
            /\ Len(images') = n
            /\ \A i \in 1..n : images'[((i - 1 + s) % n) + 1] = images[i]
            /\ (last.op = "nav" /\ last.act /= last'.act /\ run.k = 0 /\ run.j = 1) =>
                    images' = run.q0
            /\ run'.j = n => images' = run'.q0]_vars

\* three next in a row on a queue of three images
NavRotatesReached ==
    /\ last.op = "nav" /\ last.act = "next" /\ run.k = 0 /\ run.j = 3
    /\ Len(images) = 3 /\ images = run.q0
    /\ page = "open"

\* the directories from root down to d, root included; the names below root
DirsFrom(root, d) == {SubSeq(d, 1, n) : n \in Len(root)..Len(d)}
NamesBelow(root, d) == {d[n] : n \in (Len(root) + 1)..Len(d)}
IsBelow(root, d) == Len(d) >= Len(root) /\ SubSeq(d, 1, Len(root)) = root

\* C19: the queue of a sorter page just opened is ordered by non-increasing
\* max(width, height) of the bitmaps load_pixmap returns, the placeholder
\* of PLACEHOLDER x PLACEHOLDER pixels for a file that cannot be decoded.
QueueLargestFirst ==
    (page = "open" /\ last.op = "open" /\ listing /= <<>>) =>
        \A i, j \in 1..Len(images) :
            i < j =>
                LET a == IF images[i] \in DOMAIN pix
                         THEN Max(pix[images[i]].w, pix[images[i]].h) ELSE PLACEHOLDER
                    b == IF images[j] \in DOMAIN pix
                         THEN Max(pix[images[j]].w, pix[images[j]].h) ELSE PLACEHOLDER
                IN  a >= b

\* a queue of three images opened from a listing in another order: a wide
\* image, an image that cannot be decoded, a small image
QueueLargestFirstReached ==
    /\ page = "open" /\ last.op = "open" /\ listing /= <<>>
    /\ Len(images) = 3
    /\ images[1] \in DOMAIN pix /\ pix[images[1]].w > PLACEHOLDER
    /\ images[2] \notin DOMAIN pix
    /\ images[3] \in DOMAIN pix /\ pix[images[3]].w < PLACEHOLDER /\ pix[images[3]].h < PLACEHOLDER
    /\ Cls \in DOMAIN listing /\ listing[Cls] = <<images[3], images[2], images[1]>>

\* C20: gather_images(root, max_depth) returns no image whose directory is
\* more than max_depth levels below root, and returns every image whose
\* directory is at most max_depth levels below root and is reached from
\* root (level 0) through directories that can be opened and, below root,
\* have no skipped name.
DepthBound ==
    (scan /= <<>> /\ scan.called) =>
        /\ \A i \in 1..Len(scan.out) :
                /\ IsBelow(scan.root, scan.out[i].dir)
                /\ Len(scan.out[i].dir) - Len(scan.root) <= scan.max_depth
        /\ \A p \in DOMAIN fs :
                (/\ IsImage(p)
                 /\ IsBelow(scan.root, p.dir)
                 /\ Len(p.dir) - Len(scan.root) <= scan.max_depth
                 /\ DirsFrom(scan.root, p.dir) \cap scan.denied = {}
                 /\ \A name \in NamesBelow(scan.root, p.dir) :
                        Lower(name) \notin {".git", "temp", "tmp", "cache", "appdata", "localcache"})
                    => p \in RangeOf(scan.out)

\* the scan with max_depth 1 has returned the images of levels 0 and 1, and
\* not the image two levels below the root
DepthBoundReached ==
    /\ scan /= <<>> /\ scan.called /\ scan.root = ClassDir /\ scan.max_depth = 1
    /\ P(Chain(2), 1, "jpg") \in DOMAIN fs
    /\ RangeOf(scan.out) = {P(ClassDir, 1, "jpg"), P(Chain(1), 1, "jpg")}

\* the disk of the scan
ScanDisk == [scan.t EXCEPT !.fs = fs, !.dirs = dirs]

\* the scan from root opens the directory d: d is at most max_depth levels
\* below root, and every directory from root to d can be opened and, below
\* root, has an entry that can be examined and a name that is not skipped
ScanOpens(t, root, max_depth, d) ==
    /\ IsBelow(root, d)
    /\ Len(d) - Len(root) <= max_depth
    /\ DirsFrom(root, d) \subseteq t.dirs
    /\ DirsFrom(root, d) \cap t.denied = {}
    /\ \A x \in DirsFrom(root, d) : x /= root => DirEntry(x) \notin t.broken
    /\ \A name \in NamesBelow(root, d) : ~SkippedName(name)

\* C21: gather_images never raises. A call without limit on a root that
\* exists returns the images of all directories it can open within the
\* depth bound, but for the images whose own entry fails with an OSError:
\* an entry or a subdirectory that fails takes nothing else from the
\* result. On a missing root, and when an exception other than an OSError
\* arises at an entry of a directory the scan opens, the result is empty.
ScanNeverRaises ==
    (scan /= <<>> /\ scan.called) =>
        LET t == ScanDisk
            lost == \E e \in t.odd :
                        LET d == IF e.isdir THEN Front(e.dir) ELSE e.dir
                        IN  /\ e \in Entries(t, d)
                            /\ ScanOpens(t, scan.root, scan.max_depth, d)
        IN  /\ scan.err = "none"
            /\ scan.limit = NoLimit =>
                    RangeOf(scan.out) =
                        IF scan.root \notin dirs \/ lost THEN {}
                        ELSE {p \in DOMAIN fs :
                                /\ IsImage(p)
                                /\ ScanOpens(t, scan.root, scan.max_depth, p.dir)
                                /\ FileEntry(p) \notin t.broken}

\* the part of C21 that holds: the same, for a root whose stat() succeeds
\* or fails with ENOENT
ScanRecovers == (scan /= <<>> /\ scan.t.nostat = {}) => ScanNeverRaises

\* the directory names of the trees that start with '.' or are, but for the
\* case of their letters, one of temp, tmp, cache, appdata, localcache
Transient == {".git", "tmp", "Temp"}

\* C22: a call of gather_images returns, also on a tree deeper than
\* max_depth and on a tree with a cycle of links, and at no time are more
\* than max_depth + 1 directories open (the root and max_depth levels below).
WalkTerminates ==
    /\ [](scan.walking => Len(scan.stack) <= scan.max_depth + 1)
    /\ (scan.walking ~> scan.called)

\* the call has returned what gather_images returns
WalkAgrees ==
    (scan.walking /\ scan.called /\ scan.err = "none") =>
        scan.out = GatherImages(ScanDisk, scan.root, scan.max_depth, scan.limit)

\* a scan of a class directory that holds a link to itself has returned,
\* having met the image of the directory once on every level
WalkTerminatesReached ==
    /\ scan.walking /\ scan.called /\ scan.root = ClassDir /\ scan.max_depth = GatherDepth
    /\ ClassDir \o <<"loop">> \in DOMAIN scan.t.links
    /\ P(ClassDir, 1, "jpg") \in DOMAIN fs
    /\ scan.limit = 0
    /\ Len(scan.out) >= GatherDepth + 1
    /\ \A n \in 0..GatherDepth :
            P(ClassDir \o [i \in 1..n |-> "loop"], 1, "jpg") \in RangeOf(scan.out)

\* C23: no path gather_images returns has a directory with such a name
\* between the root and the file, and every image is returned whose
\* directory is within the depth bound and is reached from the root through
\* directories that can be opened and have no such name.
SkipsTransient ==
    (scan /= <<>> /\ scan.called) =>
        /\ \A i \in 1..Len(scan.out) : NamesBelow(scan.root, scan.out[i].dir) \cap Transient = {}
        /\ \A p \in DOMAIN fs :
                (/\ IsImage(p)
                 /\ IsBelow(scan.root, p.dir)
                 /\ Len(p.dir) - Len(scan.root) <= scan.max_depth
                 /\ DirsFrom(scan.root, p.dir) \cap scan.denied = {}
                 /\ NamesBelow(scan.root, p.dir) \cap Transient = {})
                    => p \in RangeOf(scan.out)

\* a scan of a tree with images in tmp, Temp, .git and a/tmp has returned
\* the images of a and b, and none of those
SkipsTransientReached ==
    /\ scan /= <<>> /\ scan.called /\ scan.root = ClassDir /\ scan.max_depth = GatherDepth
    /\ {P(ClassDir \o <<x>>, 1, "jpg") : x \in {"tmp", "Temp", ".git", "a", "b"}} \subseteq DOMAIN fs
    /\ P(ClassDir \o <<"a", "tmp">>, 1, "jpg") \in DOMAIN fs
    /\ RangeOf(scan.out) = {P(ClassDir \o <<"a">>, 1, "jpg"), P(ClassDir \o <<"b">>, 1, "jpg")}

Returns == loads /= <<>> /\ loads'.ret.serial /= loads.ret.serial

\* C25: a call of load_pixmap never ends with an exception. A call whose
\* file is missing, cannot be examined or cannot be decoded returns the
\* placeholder of 200 x 200 pixels, and after the call the cache of
\* lru_cache holds an entry for the path as after a call that has decoded
\* an image: the bitmap returned, if the path had no entry before.
PlaceholderOnFailure ==
    [][Returns =>
        LET r == loads'.ret
        IN  /\ r.err = "none"
            /\ r.failure \in {"FileNotFoundError", "PermissionError", "ValueError"} =>
                    r.pm = [w |-> 200, h |-> 200]
            /\ Cached(lru', r.path)
            /\ ~Cached(lru, r.path) => Pm(lru', r.path) = r.pm]_vars

\* a file that cannot be decoded has been loaded: the placeholder has been
\* returned and is the entry of the path
PlaceholderOnFailureReached ==
    /\ loads /= <<>> /\ loads.ret.path = Watched /\ loads.ret.from = "decode"
    /\ loads.ret.failure = "ValueError" /\ loads.ret.err = "none"
    /\ loads.ret.pm = [w |-> 200, h |-> 200]
    /\ Cached(lru, Watched) /\ Pm(lru, Watched) = loads.ret.pm

\* C26: a call of load_pixmap for a path at which no file has ever been,
\* made after an earlier call for the path has returned (and before the
\* next chunk is opened), is answered by lru_cache: it returns the
\* placeholder the first call returned and makes no decode attempt.
SecondFromCache ==
    [][(/\ loads /= <<>> /\ loads'.n = loads.n + 1
        /\ loads.held /\ ~loads.gone
        /\ \/ Returns /\ loads'.ret.path = Watched
           \/ \E thread \in DOMAIN calls' \ DOMAIN calls : calls'[thread].path = Watched)
       => /\ Returns
          /\ loads'.ret.path = Watched /\ loads'.ret.from = "lru"
          /\ loads'.ret.pm = loads.first /\ loads'.ret.pm = [w |-> 200, h |-> 200]
          /\ loads'.decodes = loads.decodes]_vars

\* the path without a file has been loaded twice, one call after the other:
\* one decode attempt, the second call answered by lru_cache
SecondFromCacheReached ==
    /\ loads /= <<>> /\ ~loads.gone /\ loads.ret.serial = 2 /\ loads.n = 2
    /\ loads.ret.path = Watched /\ loads.ret.from = "lru"
    /\ loads.ret.pm = [w |-> 200, h |-> 200] /\ loads.first = loads.ret.pm
    /\ loads.decodes = 1 /\ calls = <<>>

\* C27: every call of load_pixmap for a path returns the bitmap the first
\* call for the path returned, whatever other loads and whatever moves of
\* the file happen in between.
LoadIsPure ==
    (loads /= <<>> /\ loads.ret.path = Watched /\ loads.ret.err = "none") =>
        loads.ret.pm = loads.first

\* no path has two entries in the cache
OnePerPath(c) ==
    \A i, j \in 1..Len(c) :
        i < j => \/ c[i].dir /= c[j].dir \/ c[i].ext /= c[j].ext
                 \/ c[i].hi < c[j].lo \/ c[j].hi < c[i].lo

\* C28: the cache of lru_cache never holds more than 4096 entries and never
\* two entries for one path; when a path is stored in the cache holding
\* 4096 entries, the cache still holds 4096 and the entry used least
\* recently is gone.
LruBounded ==
    /\ [](lru /= <<>> => Size(lru) <= 4096 /\ OnePerPath(lru))
    /\ [][(/\ Size(lru) = 4096
            /\ \E q \in Loadable : ~Cached(lru, q) /\ Cached(lru', q))
           => /\ Size(lru') = 4096
              /\ ~Cached(lru', P(lru[1].dir, lru[1].lo, lru[1].ext))]_vars

\* all chunks have been opened and the watched path has then been decoded
\* and stored in the full cache
LruBoundedReached ==
    /\ loads /= <<>> /\ loads.opened = MaxOpens /\ Size(lru) = 4096
    /\ loads.ret.path = Watched /\ loads.ret.from = "decode"
    /\ lru[Len(lru)] = Run(Watched, loads.ret.pm)
    /\ lru[1].dir = LargeDir

\* the value of the names that are all digits, and the place of the other
\* names in the order of their letters, case left aside
Numeric == [name \in {"2", "07", "10"} |-> IF name = "2" THEN 2 ELSE IF name = "07" THEN 7 ELSE 10]
Folded ==
    [name \in {"A", "a1", "b", "B", "delete"} |->
        IF name = "A" THEN 1 ELSE IF name = "a1" THEN 2 ELSE IF name \in {"b", "B"} THEN 3 ELSE 4]

\* C29: the class list holds the directories of the base directory but
\* delete, each once: first the names that are all digits by ascending
\* value, then the other names in lexicographic order, case left aside.
ClassListOrdered ==
    last.op = "classes" =>
        LET classes == last.to
        IN  /\ RangeOf(classes) = {name \in DOMAIN listing : <<name>> \in dirs} \ {"delete"}
            /\ \A i, j \in 1..Len(classes) :
                    i < j =>
                        /\ classes[i] /= classes[j]
                        /\ classes[j] \in DOMAIN Numeric =>
                                /\ classes[i] \in DOMAIN Numeric
                                /\ Numeric[classes[i]] <= Numeric[classes[j]]
                        /\ classes[i] \in DOMAIN Folded =>
                                /\ classes[j] \in DOMAIN Folded
                                /\ Folded[classes[i]] <= Folded[classes[j]]

\* the list of a base directory with the entries b, 10, delete and 2
ClassListOrderedReached ==
    /\ last.op = "classes"
    /\ DOMAIN listing = {"b", "10", "delete", "2"}
    /\ last.to = <<"2", "10", "b">>

\* C30: a sort on the empty queue moves no file, creates no directory,
\* pushes no history entry, leaves the queue empty and raises nothing.
SortOnEmptyIsNoOp ==
    [][(~Delivered /\ last'.op = "sort" /\ images = <<>>) =>
            /\ fs' = fs /\ dirs' = dirs
            /\ history' = history
            /\ images' = <<>>
            /\ last'.err = "none"]_vars

\* a class without unsorted images has been opened and a sort key pressed
SortOnEmptyReached ==
    /\ page = "open" /\ last.op = "sort" /\ last.src = NoPath /\ last.err = "none"
    /\ images = <<>> /\ history = <<>>
    /\ fs = disk0 /\ fs /= EmptyFs

\* C31: an undo on the empty history moves no file, leaves the queue and the
\* history as they are, starts no load and raises nothing.
UndoOnEmptyIsNoOp ==
    [][(~Delivered /\ last'.op = "undo" /\ history = <<>>) =>
            /\ fs' = fs /\ dirs' = dirs
            /\ images' = images
            /\ history' = <<>>
            /\ jobs' = jobs
            /\ page' = page /\ done' = done
            /\ last'.err = "none"]_vars

\* undo has been called with nothing to take back, on a queue whose head
\* is still being loaded, after a sort and its undo
UndoOnEmptyReached ==
    /\ page = "open" /\ last.op = "undo" /\ last.src = NoPath /\ last.err = "none"
    /\ history = <<>> /\ images /= <<>>
    /\ run.k = 1 /\ run.j = 2
    /\ jobs = SetToBag({images[1]})

\* the path a history entry's file had before the move the entry records
PreMove(e) == Dst(e.src, e.orig_parent)

Queued(q) == {q[i] : i \in 1..Len(q)}

\* C32: the queue holds no path twice and no path that is the pre-move path
\* of an entry of the history; a path leaves the queue only in the sort that
\* moves it and enters it only in the undo of the entry that records its
\* move.
QueueExcludesMoved ==
    /\ [](/\ Cardinality(Queued(images)) = Len(images)
          /\ \A k \in 1..Len(history) : PreMove(history[k]) \notin Queued(images))
    /\ [][/\ \A p \in Queued(images) \ Queued(images') :
                /\ SortReturned
                /\ last'.src = p
                /\ history' /= <<>> /\ PreMove(history'[Len(history')]) = p
          /\ \A p \in Queued(images') \ Queued(images) :
                /\ UndoReturned
                /\ history /= <<>> /\ PreMove(history[Len(history)]) = p
                /\ history' = Front(history)]_vars

\* two images have been sorted and the second move undone: one pre-move
\* path is in the history, the other is back in the queue, in front of a
\* third image
QueueExcludesMovedReached ==
    /\ page = "open" /\ last.op = "undo" /\ last.err = "none" /\ last.src /= NoPath
    /\ Len(history) = 1 /\ Len(images) = 2
    /\ PreMove(history[1]) \notin Queued(images)
    /\ PreMove(history[1]) \in DOMAIN disk0
    /\ images[1] = Dst(last.src, last.to)

\* a step of a thread of the pool: it takes a task, or runs it and emits
PoolStep == calls' /= calls

\* a call of _loaded with a completion
Completion == Len(loads') < Len(loads)

\* C33: a step of a pool thread changes only the bitmap cache and the
\* queue of completions, never the work queue, the history, the chunk index,
\* the disk or the page; the work queue and the history change only in a
\* call of sort, undo or navigate in the main thread; the call of _loaded
\* with a completion leaves the work queue and the history as they are.
WorkersLeaveEngine ==
    [][/\ PoolStep =>
            /\ UNCHANGED <<images, history, class_chunks, class_chunk_index, sel>>
            /\ UNCHANGED <<fs, dirs, jobs, pm_full, page, done, last, run, shown, qcache>>
            /\ \/ loads' = loads /\ lru' = lru
               \/ /\ Len(loads') = Len(loads) + 1
                  /\ Front(loads') = loads
                  /\ Cached(lru', loads'[Len(loads')].path)
       /\ (images' /= images \/ history' /= history) =>
            /\ ~PoolStep /\ ~Completion
            /\ last'.op \in {"sort", "undo", "nav"}
            /\ UNCHANGED <<lru, qcache, loads>>
       /\ Completion => UNCHANGED <<images, history, fs, dirs, lru, calls>>]_vars

\* on the project page the chunk index changes only in _change_chunk and
\* in the enumeration of _populate
ChunkIndexOwners ==
    [][class_chunk_index' /= class_chunk_index => last'.op \in {"chunk", "populate"}]_vars

\* a pool thread has run a task that missed the cache and emitted its
\* completion after the image it was started for had been sorted; the
\* completion has not been handled yet
WorkersLeaveEngineReached ==
    /\ page = "open" /\ history /= <<>> /\ images /= <<>>
    /\ loads /= <<>> /\ loads[1].path = PreMove(history[1]) /\ loads[1].pm = Placeholder
    /\ Cached(lru, loads[1].path)
    /\ BagIn(loads[1].path, jobs)

\* a step of the main thread that is not the handling of a completion: a
\* call of sort, undo or navigate
KeyStep == ~PoolStep /\ ~Completion

\* C34: a call of sort, undo or navigate makes no call of load_pixmap (both
\* caches and the displayed bitmap are as before): it adds at most one task
\* to the pool, for the new head, and the task has not been taken when the
\* call returns. While the page is shown, each of the three can be called
\* whatever the pool threads are doing.
KeysNeverDecode ==
    /\ [][KeyStep =>
            /\ UNCHANGED <<lru, qcache, pm_full>>
            /\ \/ jobs' = jobs
               \/ /\ images' /= <<>>
                  /\ jobs' = jobs (+) SetToBag({images'[1]})
                  /\ UNCHANGED <<calls, loads>>
            /\ (images' /= images /\ images' /= <<>>) => jobs' /= jobs]_vars
    /\ []((page = "open" /\ BagCardinality(jobs) < MaxTasks) =>
            /\ ENABLED Sort("keep", "none", MaxTasks)
            /\ ENABLED Undo("none", MaxTasks)
            /\ ENABLED (\E s \in {1, -1} : Nav(s, MaxTasks)))

\* a sort has returned while a pool thread runs the load of the sorted
\* image, started when the class was opened; the load of the new head waits
KeysNeverDecodeReached ==
    /\ page = "open" /\ last.op = "sort" /\ last.err = "none"
    /\ run.k = 1 /\ run.j = 0 /\ run.fs0 = disk0
    /\ images /= <<>>
    /\ \E t \in DOMAIN calls : calls[t].path = last.src
    /\ Waiting(images[1]) = 1
    /\ loads = <<>> /\ pm_full = NoPath

\* the page has just been made: no handler has been called on it
JustOpened == page = "open" /\ last.op = "open"

\* C35: the queue of a page just made holds only files of the disk with an
\* image suffix, below the class directory, whose first directory below it
\* (if any) is neither keep nor review. Every image in keep, review or the
\* delete folder is absent from it and every image elsewhere below the class
\* directory is in it: so is the image that a sort before the new page put
\* away (absent), and the image an undo before it put back (present).
QueueIsUnsortedPool ==
    /\ [](JustOpened =>
            /\ \A p \in Queued(images) :
                    /\ p \in DOMAIN fs
                    /\ Lower(p.ext) \in IMG_EXTS
                    /\ IsBelow(ClassDir, p.dir)
                    /\ (p.dir /= ClassDir => p.dir[Len(ClassDir) + 1] \notin {"keep", "review"})
            /\ \A p \in DOMAIN fs :
                    Lower(p.ext) \in IMG_EXTS =>
                        /\ p.dir \in {KeepDir, ReviewDir, DeleteDir} => p \notin Queued(images)
                        /\ p.dir \in {ClassDir, SubDir} => p \in Queued(images))
    /\ [][last'.op = "open" =>
            /\ AfterSort =>
                    /\ last.src \notin Queued(images')
                    /\ Dst(last.src, last.to) \notin Queued(images')
                    /\ Dst(last.src, last.to) \in DOMAIN fs'
            /\ (last.op = "undo" /\ last.err = "none" /\ last.src /= NoPath) =>
                    Dst(last.src, last.to) \in Queued(images')]_vars

\* three unsorted images; two were sorted, to keep and to the delete folder,
\* the second move was undone and the class opened again: the queue holds
\* the restored image and the third, not the kept one
QueueIsUnsortedPoolReached ==
    /\ JustOpened
    /\ run.k = 2 /\ run.j = 1 /\ Len(run.q0) = 3
    /\ run.log[1].dst.dir = KeepDir /\ run.log[2].dst.dir = DeleteDir
    /\ Queued(images) = Queued(run.q0) \ {run.log[1].src}
    /\ run.log[2].src \in Queued(images)
    /\ run.log[1].dst \in DOMAIN fs

\* C36: if from some moment on no sort, undo or navigate is called, then
\* from some moment on no load is in flight and, when the queue is not
\* empty, the page displays the bitmap of a load of the head of the queue.
QuiescentDisplay ==
    (<>[][PoolStep \/ Completion]_vars) =>
        <>[](/\ jobs = EmptyBag /\ calls = <<>> /\ loads = <<>>
             /\ images /= <<>> => pm_full = images[1])

\* no load is in flight and the page displays the head, shown last by
\* navigation; the load run last was one for the other image, started before
\* the load of the head and handled after it
QuiescentDisplayReached ==
    /\ page = "open" /\ last.op = "nav"
    /\ jobs = EmptyBag /\ calls = <<>> /\ loads = <<>>
    /\ Len(images) = 2 /\ pm_full = images[1]
    /\ lru /= <<>> /\ Holds(lru[Len(lru)], images[2])
    /\ shown = 1

\* C37: when the page has reported the class as done, no image of the
\* class is left unsorted on the disk.
DoneMeansSorted == done => Unprocessed(fs) = {}

\* the same for the classes of at most CHUNK_SIZE images
DoneMeansSortedInChunk ==
    (done /\ Cardinality(DOMAIN disk0) <= CHUNK_SIZE) => Unprocessed(fs) = {}

\* after k calls of _sort('keep') on the long class, the page is as
\* AfterKeeps describes it
KeepsAgree ==
    (last.op \in {"open", "sort"} /\ run.j = 0 /\ run.h0 = 0 /\ Len(history) = Min(run.k, MAX_HISTORY)
        /\ Len(images) + run.k = HistImages) =>
            AfterKeeps(HistImages, run.k)

\* the length of the queue when the class was opened
OpenedLen == Min(CHUNK_SIZE, Cardinality(Unprocessed(disk0)))

\* C38: the queue never holds more than CHUNK_SIZE paths nor, together with
\* the moves recorded in the history, more paths than it held when the class
\* was opened; it grows only by one, in an undo that returns, and the path
\* that enters is the pre-move path of the entry the undo pops, a path that
\* was unsorted when the class was opened.
QueueNeverGrows ==
    /\ [](/\ Len(images) <= CHUNK_SIZE
          /\ Len(images) + Len(history) <= OpenedLen)
    /\ [][Len(images') > Len(images) =>
            /\ UndoReturned
            /\ Len(images') = Len(images) + 1
            /\ history /= <<>> /\ history' = Front(history)
            /\ images'[1] = PreMove(history[Len(history)])
            /\ images'[1] \in Unprocessed(disk0)]_vars

\* a class of more than CHUNK_SIZE images: two images of the full queue
\* were sorted and both moves undone, the queue is full again
QueueNeverGrowsReached ==
    /\ page = "open" /\ last.op = "undo" /\ last.err = "none" /\ last.src /= NoPath
    /\ Cardinality(Unprocessed(disk0)) > CHUNK_SIZE
    /\ Len(images) = CHUNK_SIZE /\ history = <<>>
    /\ run.k = 2 /\ run.j = 2

\* the thumbnail t agrees with the disk: its path names a file, the file is
\* in the folder of its state, and the sidecar that lay next to its image is
\* in the folder of the file
Agrees(t) ==
    /\ t.path \in DOMAIN fs
    /\ IsBelow(StateDir(t.state), t.path.dir)
    /\ \A q \in DOMAIN fs : fs[q] = Txt(t.img) => q.dir = t.path.dir

\* C39: every thumbnail of the gallery agrees with the disk.
ThumbsAgree == \A i \in 1..Len(thumbs) : Agrees(thumbs[i])

\* every thumbnail agrees with the disk and its path names its own image
ThumbsOwn == \A i \in 1..Len(thumbs) : Agrees(thumbs[i]) /\ fs[thumbs[i].path] = thumbs[i].img

\* the toggles follow keep -> review -> delete -> keep, and a toggle that
\* returns, or raises before a file is moved, leaves every thumbnail with
\* its own image if no file is at the paths it moves to
ToggleKeepsAgreement ==
    [][last'.op = "toggle" /\ last' /= last =>
        LET i == last'.to[1]
            new_path == Dst(thumbs[i].path, DstDir(last'.act))
        IN  /\ last'.err = "none" =>
                    /\ <<thumbs[i].state, thumbs'[i].state>> \in
                            {<<"keep", "review">>, <<"review", "delete">>, <<"delete", "keep">>}
                    /\ thumbs'[i].path = new_path
            /\ (/\ ThumbsOwn
                /\ last'.err /= "sidecar"
                /\ new_path \notin DOMAIN fs
                /\ Txt(new_path) \notin DOMAIN fs) => ThumbsOwn']_vars

CountsFollowMoves ==
    [][LET c == Counts(fs, dirs, images)
           after == Counts(fs', dirs', images')
       IN  /\ SortReturned => after = [c EXCEPT ![last'.act] = @ + 1, !.remaining = @ - 1]
           /\ UndoReturned => after = [c EXCEPT ![last'.act] = @ - 1, !.remaining = @ + 1]
           /\ NavStep => after = c]_vars

\* the chunks of a class one after the other
RECURSIVE Flat(_)
Flat(chunks) == IF chunks = <<>> THEN <<>> ELSE Head(chunks) \o Flat(Tail(chunks))

\* the least number of chunks of CHUNK_SIZE images that hold total images
LeastCover(total) ==
    CHOOSE m \in 0..total : m * CHUNK_SIZE >= total /\ (m = 0 \/ (m - 1) * CHUNK_SIZE < total)

\* C13: a sorter page opened from the project page, with the directory as
\* it was enumerated, has in its queue exactly the images of the active
\* chunk of the class.
QueueIsActiveChunk ==
    (page = "open" /\ sel /= NoClass /\ disk0 = listing) =>
        RangeOf(images) = RangeOf(class_chunks[sel][class_chunk_index[sel] + 1])

\* C14: the chunks of every class, one after the other, are the enumerated
\* list of its unsorted images (no duplicate, no omission); no chunk has
\* more than CHUNK_SIZE images; the number of chunks is
\* ceil(total / CHUNK_SIZE), and one empty chunk when there is no image.
ChunksPartition ==
    \A c \in DOMAIN class_chunks :
        LET u == UnsortedImgs(disk0[c])
            chunks == class_chunks[c]
        IN  /\ Flat(chunks) = u
            /\ Cardinality(RangeOf(Flat(chunks))) = Len(u)
            /\ \A k \in 1..Len(chunks) : Len(chunks[k]) <= CHUNK_SIZE
            /\ Len(chunks) = Max(1, LeastCover(Len(u)))
            /\ NumChunks(Len(u)) = Len(chunks)
            /\ Len(u) = 0 => chunks = << <<>> >>

\* back from the sorter page, _populate has found MaxChunks full chunks and
\* a last chunk of one image in class cat, a full chunk and a chunk of one
\* image in class dog
ChunksPartitionReached ==
    /\ page = "project" /\ last.op = "populate" /\ last.to /= <<>>
    /\ Len(class_chunks["cat"]) = MaxChunks + 1
    /\ Len(class_chunks["cat"][1]) = CHUNK_SIZE
    /\ Len(class_chunks["cat"][MaxChunks + 1]) = 1
    /\ Len(class_chunks["dog"]) = 2

\* C15: the active chunk index of every class is at least 0 and at most
\* the number of its chunks minus one.
ChunkIndexInRange ==
    \A c \in DOMAIN class_chunk_index :
        /\ 0 <= class_chunk_index[c]
        /\ class_chunk_index[c] <= Len(class_chunks[c]) - 1

\* _change_chunk was called with a delta that leads past the last chunk of
\* a class of several chunks: the index is that of the last chunk
ChunkIndexClamped ==
    /\ last.op = "chunk"
    /\ Len(class_chunks[last.act]) >= 2
    /\ last.to[1] + last.to[2] > Len(class_chunks[last.act]) - 1
    /\ class_chunk_index[last.act] = Len(class_chunks[last.act]) - 1

\* C16: _populate builds the chunks of every class from the directory as
\* it is now and sets every active index to 0; a change of the selection
\* leaves chunks and indexes as they are.
ReenumerationResets ==
    [][/\ (page = "open" /\ page' = "project") =>
            /\ DOMAIN class_chunks' = ClassNames(listing')
            /\ DOMAIN class_chunk_index' = ClassNames(listing')
            /\ \A c \in ClassNames(listing') :
                    /\ class_chunk_index'[c] = 0
                    /\ Flat(class_chunks'[c]) = UnsortedImgs(listing'[c])
                    /\ Len(class_chunks'[c]) = Max(1, LeastCover(Len(UnsortedImgs(listing'[c]))))
       /\ (page = "project" /\ sel' /= sel) =>
            (class_chunk_index' = class_chunk_index /\ class_chunks' = class_chunks)]_vars

\* _populate has run with both classes on their second chunk and class cat
\* down to a single chunk on disk: every index is 0
ReenumerationReached ==
    /\ last.op = "populate" /\ last.to = <<1, 1>>
    /\ page = "project"
    /\ Len(class_chunks["cat"]) = 1
    /\ \A c \in DOMAIN class_chunk_index : class_chunk_index[c] = 0

====
